---- MODULE Spec2Model ----
(***************************************************************************)
(* Static intrinsic valuation of a gas storage facility                    *)
(* (server/storageOptimization.ts).                                        *)
(*                                                                         *)
(* Numbers.  The code works on JavaScript numbers; the model works on      *)
(* exact fixed-point numbers:                                              *)
(*   - a volume is an integer count of 1/VolDen MMBtu, so that             *)
(*     Math.round on a volume is a real conversion (RoundVol);             *)
(*   - a price or a unit cost is an integer count of 1/PriceDen cent;      *)
(*   - a discount rate is one of the rates of RateSet, for which           *)
(*     (1 + rate)^(-1/12) is the rational DFNum/DFDen, so that             *)
(*     Math.pow(1 + rate, -k/12) * DFDen^MaxMonth is an integer;           *)
(*   - a spread is a price times DFDen^MaxMonth, a value is a volume times *)
(*     a spread, and Math.round(totalValue * 100) / 100 is RoundMoney.     *)
(* Arrays are 1-based sequences: period k of the code is index k + 1.      *)
(***************************************************************************)
EXTENDS Integers, Sequences, FiniteSets, TLC

\* ---------------------------------------------------------------- bounds
\* Longest forward curve.
MaxN == 3
\* A volume is a count of 1/VolDen units, a price a count of 1/PriceDen cent.
VolDen == 3
PriceDen == 2
\* Most calls of optimizeStorage made one after the other.
MaxCalls == 2
\* Longest list handed to prepareForwardPrices.
MaxItems == 2
\* Last minute on the server's clock.
MaxTime == 6
\* Most attempts a caller of withRetry asks for.
MaxRetries == 3
\* Most requests the storage router receives one after the other.
MaxRequests == 3
\* Most calls of runGasStorageOptimization under way together.
MaxRuns == 2
\* Last millisecond on the clock of those calls.
MaxMillis == 2

MaxMonth == MaxN - 1

\* Prices may be negative: one deeply negative price besides three levels >= 0.
PriceSet == {-40, 0, 1, 2}
DaysSet == {1, 2}
CapSet == {2, 6}
InventorySet == {0, 1, 3}
RateLimitSet == {2, 3}
CostSet == {0, 1}
RateSet == {"zero", "pos"}

\* ---------------------------------------------------------------- helpers
Min2(a, b) == IF a <= b THEN a ELSE b
Max2(a, b) == IF a >= b THEN a ELSE b

RECURSIVE Pow(_, _)
Pow(b, e) == IF e = 0 THEN 1 ELSE b * Pow(b, e - 1)

RECURSIVE SumTo(_, _)
\* sum of f[1..k]
SumTo(f, k) == IF k = 0 THEN 0 ELSE SumTo(f, k - 1) + f[k]

\* Math.round on a volume: the nearest whole unit, halves towards +infinity.
RoundVol(x) == ((2 * x + VolDen) \div (2 * VolDen)) * VolDen

\* (1 + rate)^(-1/12) as the fraction DFNum / DFDen.
DFNum(rate) == IF rate = "zero" THEN 1 ELSE 30
DFDen(rate) == IF rate = "zero" THEN 1 ELSE 31

\* Number of value units in one cent.
CentUnits(params) == VolDen * PriceDen * Pow(DFDen(params.discountRate), MaxMonth)

\* Math.round(totalValue * 100) / 100.
RoundMoney(x, params) ==
    LET c == CentUnits(params) IN ((2 * x + c) \div (2 * c)) * c

\* Variant: the exponent has lost its sign, Math.pow(1 + annualRate, monthsFromNow / 12)
\* (scaled the same way, divided by DFNum^MaxMonth).
getDiscountFactorGrowing(monthsFromNow, annualRate) ==
    Pow(DFDen(annualRate), monthsFromNow)
        * Pow(DFNum(annualRate), MaxMonth - monthsFromNow)

\* Math.pow(1 + annualRate, -monthsFromNow / 12), times DFDen^MaxMonth.
getDiscountFactor(monthsFromNow, annualRate) ==
    Pow(DFNum(annualRate), monthsFromNow)
        * Pow(DFDen(annualRate), MaxMonth - monthsFromNow)

getMaxMonthlyInjection(params, daysInMonth) == params.maxInjectionRate * daysInMonth

getMaxMonthlyWithdrawal(params, daysInMonth) == params.maxWithdrawalRate * daysInMonth

\* Variant: the transaction costs are left out of the spread.
buildSpreadMatrixNoCosts(prices, params) ==
    LET n == Len(prices)
    IN  [i \in 1..n |-> [j \in 1..n |->
            IF j > i
            THEN prices[j].price * getDiscountFactor(j - 1, params.discountRate)
                    - prices[i].price * getDiscountFactor(i - 1, params.discountRate)
            ELSE 0]]

\* Variant: the two months are swapped, revenue is taken in month i and the cost
\* paid in month j.
buildSpreadMatrixSwapped(prices, params) ==
    LET n == Len(prices)
    IN  [i \in 1..n |-> [j \in 1..n |->
            IF j > i
            THEN (prices[i].price - params.withdrawalCost)
                    * getDiscountFactor(i - 1, params.discountRate)
                 - (prices[j].price + params.injectionCost)
                    * getDiscountFactor(j - 1, params.discountRate)
            ELSE 0]]

\* Variant: the inner loop runs over every j other than i, so the lower triangle
\* is filled as well.
buildSpreadMatrixFullTable(prices, params) ==
    LET n == Len(prices)
    IN  [i \in 1..n |-> [j \in 1..n |->
            IF j # i
            THEN (prices[j].price - params.withdrawalCost)
                    * getDiscountFactor(j - 1, params.discountRate)
                 - (prices[i].price + params.injectionCost)
                    * getDiscountFactor(i - 1, params.discountRate)
            ELSE 0]]

\* Array(n) of Array(n).fill(0), then the double loop over i < j.
buildSpreadMatrix(prices, params) ==
    LET n == Len(prices)
    IN  [i \in 1..n |-> [j \in 1..n |->
            IF j > i
            THEN LET dfI == getDiscountFactor(i - 1, params.discountRate)
                     dfJ == getDiscountFactor(j - 1, params.discountRate)
                     injectionCostTotal == (prices[i].price + params.injectionCost) * dfI
                     withdrawalRevenueTotal == (prices[j].price - params.withdrawalCost) * dfJ
                 IN  withdrawalRevenueTotal - injectionCostTotal
            ELSE 0]]

\* Variant: spreads[i][j] >= 0.
IsNonNegativeSpread(s) == s >= 0

\* Variant: spreads[i][j] !== 0.
IsNonZeroSpread(s) == s # 0

\* The test of the enumeration loop: only strictly positive spreads are kept.
IsPositiveSpread(s) == s > 0

RECURSIVE CollectAdjacentPairs(_, _, _, _)
\* Variant: the inner loop stops after j = i + 1, only neighbouring months are
\* paired.
CollectAdjacentPairs(spreads, n, i, j) ==
    IF i >= n THEN << >>
    ELSE (IF IsPositiveSpread(spreads[i][i + 1])
          THEN << [i |-> i, j |-> i + 1, spread |-> spreads[i][i + 1]] >>
          ELSE << >>)
         \o CollectAdjacentPairs(spreads, n, i + 1, i + 2)

RECURSIVE CollectPairs(_, _, _, _)
\* The double loop over i < j, in enumeration order, from pair (i, j) on.
CollectPairs(spreads, n, i, j) ==
    IF i > n THEN << >>
    ELSE IF j > n THEN CollectPairs(spreads, n, i + 1, i + 2)
    ELSE (IF IsPositiveSpread(spreads[i][j])
          THEN << [i |-> i, j |-> j, spread |-> spreads[i][j]] >>
          ELSE << >>)
         \o CollectPairs(spreads, n, i, j + 1)

\* The comparator of the sort: (a, b) => b.spread - a.spread.
CompareEntries(a, b) == b.spread - a.spread

RECURSIVE InsertEntryBeforeEqual(_, _)
\* Variant: e goes in front of the entries that compare equal to it.
InsertEntryBeforeEqual(sorted, e) ==
    IF sorted = << >> THEN << e >>
    ELSE IF CompareEntries(Head(sorted), e) < 0
         THEN << Head(sorted) >> \o InsertEntryBeforeEqual(Tail(sorted), e)
         ELSE << e >> \o sorted

RECURSIVE InsertEntry(_, _)
\* e goes behind every entry that does not compare after it (stable).
InsertEntry(sorted, e) ==
    IF sorted = << >> THEN << e >>
    ELSE IF CompareEntries(Head(sorted), e) <= 0
         THEN << Head(sorted) >> \o InsertEntry(Tail(sorted), e)
         ELSE << e >> \o sorted

RECURSIVE SortEntries(_)
\* Array.prototype.sort with CompareEntries: a stable sort, highest spread first.
SortEntries(seq) ==
    IF seq = << >> THEN << >>
    ELSE InsertEntry(SortEntries(SubSeq(seq, 1, Len(seq) - 1)), seq[Len(seq)])

\* The inventory trajectory: initialInventory plus the running net flow.
Trajectory(inj, wd, initialInventory) ==
    [k \in 1..Len(inj) |-> initialInventory + SumTo(inj, k) - SumTo(wd, k)]

\* Variant: the headroom is looked at in the injection month only.
MinHeadroomFirstOnly(inv, capacity, k, j, acc) ==
    IF k >= j THEN acc ELSE Min2(acc, capacity - inv[k])

RECURSIVE MinHeadroom(_, _, _, _, _)
\* The loop for (k = i; k < j; k++) over capacity - inventory[k], from acc.
MinHeadroom(inv, capacity, k, j, acc) ==
    IF k >= j THEN acc
    ELSE MinHeadroom(inv, capacity, k + 1, j, Min2(acc, capacity - inv[k]))

\* Variant: volumeByWithdrawal is left out of the minimum.
CommitVolumeNoWithdrawalLimit(volumeByInjection, volumeByWithdrawal, volumeByCapacity, availableForWithdrawal) ==
    Max2(0, Min2(volumeByInjection, Min2(volumeByCapacity, availableForWithdrawal)))

\* Variant: volumeByInjection is left out of the minimum.
CommitVolumeNoInjectionLimit(volumeByInjection, volumeByWithdrawal, volumeByCapacity, availableForWithdrawal) ==
    Max2(0, Min2(volumeByWithdrawal, Min2(volumeByCapacity, availableForWithdrawal)))

\* Variant: volumeByCapacity is left out of the minimum.
CommitVolumeNoCapacityLimit(volumeByInjection, volumeByWithdrawal, volumeByCapacity, availableForWithdrawal) ==
    Max2(0, Min2(Min2(volumeByInjection, volumeByWithdrawal), availableForWithdrawal))

\* Math.max(0, Math.min(volumeByInjection, volumeByWithdrawal, volumeByCapacity,
\* availableForWithdrawal)).
CommitVolume(volumeByInjection, volumeByWithdrawal, volumeByCapacity, availableForWithdrawal) ==
    Max2(0, Min2(Min2(volumeByInjection, volumeByWithdrawal),
                 Min2(volumeByCapacity, availableForWithdrawal)))

\* Variant: availableForWithdrawal without the potential new injection.
EntryVolumeNoNewInjection(entry, inj, wd, remInj, remWd, params) ==
    LET inv == Trajectory(inj, wd, params.initialInventory)
        minCapacityBetween == MinHeadroom(inv, params.capacity, entry.i, entry.j, params.capacity)
        volumeByInjection == remInj[entry.i]
        volumeByWithdrawal == remWd[entry.j]
        volumeByCapacity == minCapacityBetween
        availableForWithdrawal ==
            params.initialInventory + SumTo(inj, entry.j) - SumTo(wd, entry.j)
    IN  CommitVolume(volumeByInjection, volumeByWithdrawal, volumeByCapacity,
                     availableForWithdrawal)

\* The volume committed to one entry of positiveSpread.
EntryVolume(entry, inj, wd, remInj, remWd, params) ==
    LET inv == Trajectory(inj, wd, params.initialInventory)
        minCapacityBetween == MinHeadroom(inv, params.capacity, entry.i, entry.j, params.capacity)
        volumeByInjection == remInj[entry.i]
        volumeByWithdrawal == remWd[entry.j]
        volumeByCapacity == minCapacityBetween
        availableForWithdrawal ==
            params.initialInventory + SumTo(inj, entry.j) - SumTo(wd, entry.j)
                + volumeByInjection
    IN  CommitVolume(volumeByInjection, volumeByWithdrawal, volumeByCapacity,
                     availableForWithdrawal)

\* Variant: peakInventory = runningInventory, without Math.max.
RunningLast(f, k, acc) == IF k = 0 THEN acc ELSE f[k]

RECURSIVE RunningMax(_, _, _)
\* max of acc and f[1..k]
RunningMax(f, k, acc) == IF k = 0 THEN acc ELSE Max2(RunningMax(f, k - 1, acc), f[k])

\* Variant: the inventory is not carried from one period to the next.
BuildResultNoCarry(prices, params, inj, wd, tv) ==
    LET n == Len(prices)
        running == Trajectory(inj, wd, params.initialInventory)
    IN  [schedule |-> [k \in 1..n |->
            [month |-> prices[k].month,
             injection |-> RoundVol(inj[k]),
             withdrawal |-> RoundVol(wd[k]),
             netFlow |-> RoundVol(inj[k] - wd[k]),
             endingInventory |-> RoundVol(params.initialInventory + inj[k] - wd[k]),
             price |-> prices[k].price]],
         totalValue |-> RoundMoney(tv, params),
         totalInjection |-> RoundVol(SumTo(inj, n)),
         totalWithdrawal |-> RoundVol(SumTo(wd, n)),
         peakInventory |-> RoundVol(RunningMax(running, n, params.initialInventory))]

\* Variant: the totals are summed over all periods but the last.
BuildResultShortTotals(prices, params, inj, wd, tv) ==
    LET n == Len(prices)
        running == Trajectory(inj, wd, params.initialInventory)
    IN  [schedule |-> [k \in 1..n |->
            [month |-> prices[k].month,
             injection |-> RoundVol(inj[k]),
             withdrawal |-> RoundVol(wd[k]),
             netFlow |-> RoundVol(inj[k] - wd[k]),
             endingInventory |-> RoundVol(running[k]),
             price |-> prices[k].price]],
         totalValue |-> RoundMoney(tv, params),
         totalInjection |-> RoundVol(SumTo(inj, n - 1)),
         totalWithdrawal |-> RoundVol(SumTo(wd, n - 1)),
         peakInventory |-> RoundVol(RunningMax(running, n, params.initialInventory))]

\* The final schedule and the summary of a run that went through the loop.
BuildResult(prices, params, inj, wd, tv) ==
    LET n == Len(prices)
        running == Trajectory(inj, wd, params.initialInventory)
    IN  [schedule |-> [k \in 1..n |->
            [month |-> prices[k].month,
             injection |-> RoundVol(inj[k]),
             withdrawal |-> RoundVol(wd[k]),
             netFlow |-> RoundVol(inj[k] - wd[k]),
             endingInventory |-> RoundVol(running[k]),
             price |-> prices[k].price]],
         totalValue |-> RoundMoney(tv, params),
         totalInjection |-> RoundVol(SumTo(inj, n)),
         totalWithdrawal |-> RoundVol(SumTo(wd, n)),
         peakInventory |-> RoundVol(RunningMax(running, n, params.initialInventory))]

\* The result of the early return for n < 2: nothing is rounded.
EarlyResult(prices, params) ==
    [schedule |-> [k \in 1..Len(prices) |->
        [month |-> prices[k].month,
         injection |-> 0,
         withdrawal |-> 0,
         netFlow |-> 0,
         endingInventory |-> params.initialInventory,
         price |-> prices[k].price]],
     totalValue |-> 0,
     totalInjection |-> 0,
     totalWithdrawal |-> 0,
     peakInventory |-> params.initialInventory]

NoResult == [schedule |-> << >>, totalValue |-> 0, totalInjection |-> 0,
             totalWithdrawal |-> 0, peakInventory |-> 0]

\* ---------------------------------------------------------------- state
VARIABLES forwardPrices, params, pc, positiveSpread, idx, injections, withdrawals,
          inventory, remainingInjectionCapacity, remainingWithdrawalCapacity,
          totalValue, result

\* The number of calls of optimizeStorage made so far.
VARIABLES calls

\* prepareForwardPrices: its argument, the entries mapped so far, and whether it
\* has returned.
VARIABLES forwardCurve, prepared, prepareDone

prepareVars == << forwardCurve, prepared, prepareDone >>

\* The literal of DEFAULT_FACILITY_PARAMS (costs in cents, the rate in percent).
DEFAULT_FACILITY_PARAMS ==
    [capacity |-> 1000000, maxInjectionRate |-> 10000, maxWithdrawalRate |-> 20000,
     injectionCost |-> 2, withdrawalCost |-> 1, initialInventory |-> 0,
     discountRate |-> 5]

\* The storage router: the input of the request, the input as the schema parsed
\* it, the FacilityParams handed to optimizeStorage (or sent back by
\* storage.defaultParams), and how far the handler is.  defaults is the object
\* DEFAULT_FACILITY_PARAMS as it stands in memory, wrote the objects the clamp
\* has written to so far, requestNo the number of requests received.
VARIABLES request, parsed, handed, stage, defaults, wrote, requestNo

requestVars == << request, parsed, handed, stage, defaults, wrote, requestNo >>

\* The futures router: the entries of apiCache, the clock (in minutes), the calls
\* that wait for their fetch, and the last reply sent.  firstSuccess and served
\* keep, for each cache key, the first futures call that fetched and stored its
\* data since the last clear, and whether a futures call has been made since.
VARIABLES cache, now, pending, reply, firstSuccess, served

cacheVars == << cache, now, pending, reply, firstSuccess, served >>

\* withRetry: its arguments retries and delayMs, the loop counter i, lastError,
\* where the call stands, what it returned or rejected with, and the record of
\* what it did so far: the invocations of operation with their outcome and the
\* delays it sat through, in order.
VARIABLES retries, delayMs, attempt, lastError, retryPc, outcome, trace

retryVars == << retries, delayMs, attempt, lastError, retryPc, outcome, trace >>

\* withRetry is not running.
RetryIdle ==
    /\ retries = 0 /\ delayMs = 0 /\ attempt = 0 /\ lastError = "undefined"
    /\ retryPc = "idle" /\ outcome = "undefined" /\ trace = << >>

\* A MemoryCache of its own: the entries of its Map, the clock (in minutes), the
\* last call made on it with what it returned, and for every key the arguments
\* and the time of the last set on that key.
VARIABLES store, clock, answer, lastSet

memoryVars == << store, clock, answer, lastSet >>

\* No call has been made on the cache.
MemoryIdle == store = << >> /\ clock = 0 /\ answer = << >> /\ lastSet = << >>

\* runGasStorageOptimization: the files of os.tmpdir() (path to content), the
\* clock in milliseconds, and the calls.  A path is the Date.now() in its name, a
\* content the number of the call that wrote it.  A call keeps where it stands,
\* its csvPath (-1 before it has one), the content its Python process read (0
\* before it has read), whether that process found no file, and how it settled.
VARIABLES tmpFiles, millis, runs

bridgeVars == << tmpFiles, millis, runs >>

\* No call of runGasStorageOptimization has been made.
BridgeIdle == tmpFiles = << >> /\ millis = 0 /\ runs = << >>

\* The helpers of the server.
helperVars == << retryVars, memoryVars, bridgeVars >>

HelpersIdle == RetryIdle /\ MemoryIdle /\ BridgeIdle

\* The state of the server outside optimizeStorage.
restOfServer == << prepareVars, requestVars, cacheVars, helperVars >>

\* No list is being prepared.
PrepareIdle == forwardCurve = << >> /\ prepared = << >> /\ prepareDone = FALSE

\* No request is being handled.
RequestIdle ==
    /\ request = << >> /\ parsed = << >> /\ handed = << >> /\ stage = "idle"
    /\ defaults = DEFAULT_FACILITY_PARAMS /\ wrote = {} /\ requestNo = 0

\* The cache is empty and no call is under way.
CacheIdle ==
    /\ cache = {} /\ now = 0 /\ pending = {} /\ reply = {}
    /\ firstSuccess = {} /\ served = {}

\* The state outside the running call.
callerState == << calls, restOfServer >>

vars == << forwardPrices, params, pc, positiveSpread, idx, injections, withdrawals,
           inventory, remainingInjectionCapacity, remainingWithdrawalCapacity,
           totalValue, result, callerState >>

\* The delivery months of a curve, one after the other.
MonthLabels ==
    << "Dec 2026", "Jan 2027", "Feb 2027", "Mar 2027", "Apr 2027", "May 2027",
       "Jun 2027", "Jul 2027", "Aug 2027", "Sep 2027", "Oct 2027", "Nov 2027" >>

\* The fields of a ForwardPrice that optimizeStorage reads; month is the label of
\* the period's place in the curve (contract and expiryDate are never read).
ForwardPriceSet == [price : PriceSet, daysInMonth : DaysSet]

CurveSet ==
    UNION { { [k \in 1..n |-> [month |-> MonthLabels[k], price |-> c[k].price,
                               daysInMonth |-> c[k].daysInMonth]] :
                c \in [1..n -> ForwardPriceSet] } : n \in 0..MaxN }

\* The facilities of the model: 0 <= initialInventory <= capacity, the two rate
\* limits differ (as they do in DEFAULT_FACILITY_PARAMS), at most one of the two
\* unit costs is charged.
FacilityParamsSet ==
    { p \in [capacity : CapSet, maxInjectionRate : RateLimitSet,
             maxWithdrawalRate : RateLimitSet, injectionCost : CostSet,
             withdrawalCost : CostSet, initialInventory : InventorySet,
             discountRate : RateSet] :
        /\ p.initialInventory <= p.capacity
        /\ p.maxInjectionRate # p.maxWithdrawalRate
        /\ p.injectionCost + p.withdrawalCost <= 1 }

\* Variant: if (n < 1).
IsEmptyCurve(n) == n < 1

\* The guard of the early return: if (n < 2).
IsDegenerate(n) == n < 2

\* A call optimizeStorage(forwardPrices, params) has just been entered.
Init ==
    /\ forwardPrices \in CurveSet
    /\ params \in FacilityParamsSet
    /\ pc = "start"
    /\ positiveSpread = << >>
    /\ idx = 1
    /\ injections = << >>
    /\ withdrawals = << >>
    /\ inventory = << >>
    /\ remainingInjectionCapacity = << >>
    /\ remainingWithdrawalCapacity = << >>
    /\ totalValue = 0
    /\ result = NoResult
    /\ calls = 1
    /\ PrepareIdle
    /\ RequestIdle
    /\ CacheIdle
    /\ HelpersIdle

\* if (n < 2) return { ... }
EarlyReturn ==
    /\ pc = "start"
    /\ IsDegenerate(Len(forwardPrices))
    /\ result' = EarlyResult(forwardPrices, params)
    /\ pc' = "done"
    /\ UNCHANGED << forwardPrices, params, positiveSpread, idx, injections, withdrawals,
                    inventory, remainingInjectionCapacity, remainingWithdrawalCapacity,
                    totalValue >>
    /\ UNCHANGED callerState

\* Variant: totalValue is declared outside the function, so a call goes on from
\* the total of the call before it.
SetupKeepsTotal ==
    /\ pc = "start"
    /\ ~IsDegenerate(Len(forwardPrices))
    /\ LET n == Len(forwardPrices)
           spreads == buildSpreadMatrix(forwardPrices, params)
       IN  /\ positiveSpread' = SortEntries(CollectPairs(spreads, n, 1, 2))
           /\ injections' = [k \in 1..n |-> 0]
           /\ withdrawals' = [k \in 1..n |-> 0]
           /\ inventory' = [k \in 1..n |-> 0]
           /\ remainingInjectionCapacity' =
                [k \in 1..n |-> getMaxMonthlyInjection(params, forwardPrices[k].daysInMonth)]
           /\ remainingWithdrawalCapacity' =
                [k \in 1..n |-> getMaxMonthlyWithdrawal(params, forwardPrices[k].daysInMonth)]
    /\ idx' = 1
    /\ pc' = "loop"
    /\ UNCHANGED << forwardPrices, params, result, totalValue >>
    /\ UNCHANGED callerState

\* The spread matrix, the sorted list of positive spreads and the empty schedule.
Setup ==
    /\ pc = "start"
    /\ ~IsDegenerate(Len(forwardPrices))
    /\ LET n == Len(forwardPrices)
           spreads == buildSpreadMatrix(forwardPrices, params)
       IN  /\ positiveSpread' = SortEntries(CollectPairs(spreads, n, 1, 2))
           /\ injections' = [k \in 1..n |-> 0]
           /\ withdrawals' = [k \in 1..n |-> 0]
           /\ inventory' = [k \in 1..n |-> 0]
           /\ remainingInjectionCapacity' =
                [k \in 1..n |-> getMaxMonthlyInjection(params, forwardPrices[k].daysInMonth)]
           /\ remainingWithdrawalCapacity' =
                [k \in 1..n |-> getMaxMonthlyWithdrawal(params, forwardPrices[k].daysInMonth)]
    /\ totalValue' = 0
    /\ idx' = 1
    /\ pc' = "loop"
    /\ UNCHANGED << forwardPrices, params, result >>
    /\ UNCHANGED callerState

\* Variant: the volume is booked the wrong way round, injected in month j and
\* withdrawn in month i.
StepSwapped ==
    /\ pc = "loop"
    /\ idx <= Len(positiveSpread)
    /\ LET entry == positiveSpread[idx]
           volume == EntryVolume(entry, injections, withdrawals,
                                 remainingInjectionCapacity,
                                 remainingWithdrawalCapacity, params)
       IN  /\ inventory' = Trajectory(injections, withdrawals, params.initialInventory)
           /\ IF volume > 0
              THEN /\ injections' = [injections EXCEPT ![entry.j] = @ + volume]
                   /\ withdrawals' = [withdrawals EXCEPT ![entry.i] = @ + volume]
                   /\ remainingInjectionCapacity' =
                        [remainingInjectionCapacity EXCEPT ![entry.i] = @ - volume]
                   /\ remainingWithdrawalCapacity' =
                        [remainingWithdrawalCapacity EXCEPT ![entry.j] = @ - volume]
                   /\ totalValue' = totalValue + volume * entry.spread
              ELSE UNCHANGED << injections, withdrawals, remainingInjectionCapacity,
                                remainingWithdrawalCapacity, totalValue >>
    /\ idx' = idx + 1
    /\ UNCHANGED << forwardPrices, params, pc, positiveSpread, result >>
    /\ UNCHANGED callerState

\* One iteration of for (const entry of positiveSpread).
Step ==
    /\ pc = "loop"
    /\ idx <= Len(positiveSpread)
    /\ LET entry == positiveSpread[idx]
           volume == EntryVolume(entry, injections, withdrawals,
                                 remainingInjectionCapacity,
                                 remainingWithdrawalCapacity, params)
       IN  /\ inventory' = Trajectory(injections, withdrawals, params.initialInventory)
           /\ IF volume > 0
              THEN /\ injections' = [injections EXCEPT ![entry.i] = @ + volume]
                   /\ withdrawals' = [withdrawals EXCEPT ![entry.j] = @ + volume]
                   /\ remainingInjectionCapacity' =
                        [remainingInjectionCapacity EXCEPT ![entry.i] = @ - volume]
                   /\ remainingWithdrawalCapacity' =
                        [remainingWithdrawalCapacity EXCEPT ![entry.j] = @ - volume]
                   /\ totalValue' = totalValue + volume * entry.spread
              ELSE UNCHANGED << injections, withdrawals, remainingInjectionCapacity,
                                remainingWithdrawalCapacity, totalValue >>
    /\ idx' = idx + 1
    /\ UNCHANGED << forwardPrices, params, pc, positiveSpread, result >>
    /\ UNCHANGED callerState

\* The loop is over: build the schedule and return.
Finish ==
    /\ pc = "loop"
    /\ idx > Len(positiveSpread)
    /\ result' = BuildResult(forwardPrices, params, injections, withdrawals, totalValue)
    /\ pc' = "done"
    /\ UNCHANGED << forwardPrices, params, positiveSpread, idx, injections, withdrawals,
                    inventory, remainingInjectionCapacity, remainingWithdrawalCapacity,
                    totalValue >>
    /\ UNCHANGED callerState

Next == EarlyReturn \/ Setup \/ Step \/ Finish

Spec == Init /\ [][Next]_vars

TypeOK ==
    /\ pc \in {"start", "loop", "done"}
    /\ forwardPrices \in CurveSet
    /\ params \in FacilityParamsSet

\* ---------------------------------------------------------------- calls in a row
\* The curves and facilities of the calls made one after the other: two price
\* levels, periods of one length, no costs, no discounting, the larger capacity.
CallCurveSet ==
    { c \in CurveSet : \A k \in DOMAIN c : c[k].price \in {0, 2} /\ c[k].daysInMonth = 1 }

CallParamsSet ==
    { p \in FacilityParamsSet :
        /\ p.capacity = 6
        /\ p.injectionCost = 0 /\ p.withdrawalCost = 0
        /\ p.discountRate = "zero" }

InitCalls ==
    /\ forwardPrices \in CallCurveSet
    /\ params \in CallParamsSet
    /\ pc = "start"
    /\ positiveSpread = << >>
    /\ idx = 1
    /\ injections = << >>
    /\ withdrawals = << >>
    /\ inventory = << >>
    /\ remainingInjectionCapacity = << >>
    /\ remainingWithdrawalCapacity = << >>
    /\ totalValue = 0
    /\ result = NoResult
    /\ calls = 1
    /\ PrepareIdle
    /\ RequestIdle
    /\ CacheIdle
    /\ HelpersIdle

\* The caller invokes optimizeStorage again, with arguments of its choice.  What
\* the call before left in its local variables is still in memory.
Call ==
    /\ pc = "done"
    /\ calls < MaxCalls
    /\ forwardPrices' \in CallCurveSet
    /\ params' \in CallParamsSet
    /\ pc' = "start"
    /\ calls' = calls + 1
    /\ UNCHANGED restOfServer
    /\ UNCHANGED << positiveSpread, idx, injections, withdrawals, inventory,
                    remainingInjectionCapacity, remainingWithdrawalCapacity,
                    totalValue, result >>

NextCalls == EarlyReturn \/ Setup \/ Step \/ Finish \/ Call

SpecCalls == InitCalls /\ [][NextCalls]_vars

\* ---------------------------------------------------------------- prepareForwardPrices
\* A string that the code takes apart is a sequence of one-character strings.
UpperCase ==
    << "A", "B", "C", "D", "E", "F", "G", "H", "I", "J", "K", "L", "M",
       "N", "O", "P", "Q", "R", "S", "T", "U", "V", "W", "X", "Y", "Z" >>

LowerCase ==
    << "a", "b", "c", "d", "e", "f", "g", "h", "i", "j", "k", "l", "m",
       "n", "o", "p", "q", "r", "s", "t", "u", "v", "w", "x", "y", "z" >>

Digits == << "0", "1", "2", "3", "4", "5", "6", "7", "8", "9" >>

\* The character classes [A-Za-z], \s and \d.
IsLetter(c) == \E i \in DOMAIN UpperCase : c = UpperCase[i] \/ c = LowerCase[i]

IsSpace(c) == c = " "

IsDigit(c) == \E i \in DOMAIN Digits : c = Digits[i]

ToLower(c) ==
    IF \E i \in DOMAIN UpperCase : c = UpperCase[i]
    THEN LowerCase[CHOOSE i \in DOMAIN UpperCase : c = UpperCase[i]]
    ELSE c

DigitValue(c) == (CHOOSE i \in DOMAIN Digits : c = Digits[i]) - 1

\* NaN is written -1: no month index and no day of a month is negative.
NaN == -1

\* A property that is not there.
Undefined == "undefined"

\* let daysInMonth = 30
DefaultDaysInMonth == 30

RECURSIVE LettersEnd(_, _)
\* The first place from p on that holds no letter.
LettersEnd(s, p) == IF p <= Len(s) /\ IsLetter(s[p]) THEN LettersEnd(s, p + 1) ELSE p

RECURSIVE SpacesEnd(_, _)
\* The first place from p on that holds no white space.
SpacesEnd(s, p) == IF p <= Len(s) /\ IsSpace(s[p]) THEN SpacesEnd(s, p + 1) ELSE p

\* /([A-Za-z]+)\s+(\d{4})/ matches from place p on.
MatchesAt(s, p) ==
    LET e == LettersEnd(s, p)
        f == SpacesEnd(s, e)
    IN  /\ e > p
        /\ f > e
        /\ f + 3 <= Len(s)
        /\ \A q \in f..(f + 3) : IsDigit(s[q])

\* item.month.match(...): the two groups of the leftmost match, or no match.
MonthMatch(s) ==
    IF \E p \in 1..Len(s) : MatchesAt(s, p)
    THEN LET p == CHOOSE q \in 1..Len(s) :
                    MatchesAt(s, q) /\ \A r \in 1..(q - 1) : ~MatchesAt(s, r)
             e == LettersEnd(s, p)
             f == SpacesEnd(s, e)
         IN  [matched |-> TRUE, monthName |-> SubSeq(s, p, e - 1),
              year |-> SubSeq(s, f, f + 3)]
    ELSE [matched |-> FALSE, monthName |-> << >>, year |-> << >>]

RECURSIVE ParseInt(_)
\* parseInt on a sequence of digits.
ParseInt(ds) ==
    IF ds = << >> THEN 0
    ELSE 10 * ParseInt(SubSeq(ds, 1, Len(ds) - 1)) + DigitValue(ds[Len(ds)])

\* The month names the date parser knows: it reads the first three letters of a
\* word, in lower case, and a longer word still names the month.
MonthKeywords ==
    << << "j", "a", "n" >>,
       << "f", "e", "b" >>,
       << "m", "a", "r" >>,
       << "a", "p", "r" >>,
       << "m", "a", "y" >>,
       << "j", "u", "n" >>,
       << "j", "u", "l" >>,
       << "a", "u", "g" >>,
       << "s", "e", "p" >>,
       << "o", "c", "t" >>,
       << "n", "o", "v" >>,
       << "d", "e", "c" >> >>

\* new Date(`${monthName} 1, ${year}`).getMonth(): the month named by the word, or
\* NaN when the word names no month and the date is invalid.
ParsedMonthIndex(monthName) ==
    LET pre == [i \in 1..3 |-> IF i <= Len(monthName) THEN ToLower(monthName[i]) ELSE ""]
    IN  IF \E m \in DOMAIN MonthKeywords : MonthKeywords[m] = pre
        THEN (CHOOSE m \in DOMAIN MonthKeywords : MonthKeywords[m] = pre) - 1
        ELSE NaN

\* The Date constructor reads a year from 0 to 99 as 1900 + year.
DateYear(y) == IF 0 <= y /\ y <= 99 THEN 1900 + y ELSE y

IsLeapYear(y) == (y % 4 = 0 /\ y % 100 # 0) \/ y % 400 = 0

\* The number of days of month m (0 = January) of year y.
DaysOfMonth(y, m) ==
    IF m = 1 THEN (IF IsLeapYear(y) THEN 29 ELSE 28)
    ELSE IF m \in {3, 5, 8, 10} THEN 30 ELSE 31

\* new Date(year, month, 0).getDate(): day 0 of a month is the last day of the
\* month before it, and month 12 is January of the next year.
LastDayBefore(year, month) ==
    IF month = NaN THEN NaN
    ELSE LET y == DateYear(year) + (month \div 12)
             m == month % 12
         IN  IF m = 0 THEN DaysOfMonth(y - 1, 11) ELSE DaysOfMonth(y, m - 1)

\* Variant: monthIndex is used as it is, without the + 1.
PlusNothing(x) == x

\* monthIndex + 1
PlusOne(x) == IF x = NaN THEN NaN ELSE x + 1

\* The daysInMonth that prepareForwardPrices gives to a period label.
DaysInMonthOf(label) ==
    LET monthMatch == MonthMatch(label)
    IN  IF monthMatch.matched
        THEN LET year == ParseInt(monthMatch.year)
                 monthIndex == ParsedMonthIndex(monthMatch.monthName)
             IN  LastDayBefore(year, PlusOne(monthIndex))
        ELSE DefaultDaysInMonth

\* Variant: expiryDate: item.expiryDate, without the || ''.
NotDefaulted(x) == x

\* item.expiryDate || ''
OrEmpty(x) == IF x = Undefined \/ x = "" THEN "" ELSE x

\* The callback of forwardCurve.map.
PrepareItem(item) ==
    [contract |-> item.contract,
     month |-> item.month,
     price |-> item.price,
     expiryDate |-> OrEmpty(item.expiryDate),
     daysInMonth |-> DaysInMonthOf(item.month)]

\* The labels '<Mon> <YYYY>' of the model: every month of 2026, February of two
\* leap years and of a century year that is none, December of a leap year.
MonthYearLabels ==
    { << "J", "a", "n", " ", "2", "0", "2", "6" >>,
      << "F", "e", "b", " ", "2", "0", "2", "6" >>,
      << "M", "a", "r", " ", "2", "0", "2", "6" >>,
      << "A", "p", "r", " ", "2", "0", "2", "6" >>,
      << "M", "a", "y", " ", "2", "0", "2", "6" >>,
      << "J", "u", "n", " ", "2", "0", "2", "6" >>,
      << "J", "u", "l", " ", "2", "0", "2", "6" >>,
      << "A", "u", "g", " ", "2", "0", "2", "6" >>,
      << "S", "e", "p", " ", "2", "0", "2", "6" >>,
      << "O", "c", "t", " ", "2", "0", "2", "6" >>,
      << "N", "o", "v", " ", "2", "0", "2", "6" >>,
      << "D", "e", "c", " ", "2", "0", "2", "6" >>,
      << "F", "e", "b", " ", "2", "0", "2", "4" >>,
      << "F", "e", "b", " ", "2", "1", "0", "0" >>,
      << "F", "e", "b", " ", "2", "0", "0", "0" >>,
      << "D", "e", "c", " ", "2", "0", "2", "4" >> }

\* Other labels: a word that names no month, a word too short to name one, two
\* words that begin like a month, and four labels the pattern does not match.
OtherLabels ==
    { << "F", "o", "o", " ", "2", "0", "2", "6" >>,
      << "J", "a", " ", "2", "0", "2", "6" >>,
      << "M", "a", "r", "b", "l", "e", " ", "2", "0", "2", "6" >>,
      << "m", "a", "r", "c", "h", " ", "2", "0", "2", "6" >>,
      << "Q", "1", " ", "2", "0", "2", "6" >>,
      << "M", "a", "r", "-", "2", "0", "2", "6" >>,
      << "2", "0", "2", "6", "-", "0", "3" >>,
      << >> }

\* The entries of a list handed to prepareForwardPrices: every label without an
\* expiryDate, and one label with an expiryDate, with an empty one, and with
\* another contract and price.
CurveItemSet ==
    { [contract |-> "NGX", month |-> l, price |-> 2, expiryDate |-> Undefined] :
        l \in MonthYearLabels \cup OtherLabels }
    \cup { [contract |-> "NGH26", month |-> << "M", "a", "r", " ", "2", "0", "2", "6" >>,
            price |-> x, expiryDate |-> e] :
            x \in {-40, 1}, e \in {"2026-02-25", ""} }

ForwardCurveSet == UNION { [1..n -> CurveItemSet] : n \in 0..MaxItems }

\* The state of the engine while only prepareForwardPrices runs.
EngineIdle ==
    /\ forwardPrices = << >>
    /\ params = CHOOSE p \in FacilityParamsSet : TRUE
    /\ pc = "start"
    /\ positiveSpread = << >>
    /\ idx = 1
    /\ injections = << >>
    /\ withdrawals = << >>
    /\ inventory = << >>
    /\ remainingInjectionCapacity = << >>
    /\ remainingWithdrawalCapacity = << >>
    /\ totalValue = 0
    /\ result = NoResult
    /\ calls = 0

engineVars ==
    << forwardPrices, params, pc, positiveSpread, idx, injections, withdrawals,
       inventory, remainingInjectionCapacity, remainingWithdrawalCapacity,
       totalValue, result, calls >>

\* What prepareForwardPrices leaves alone.
besidesPrepare == << engineVars, requestVars, cacheVars, helperVars >>

\* prepareForwardPrices(forwardCurve) has just been entered.
InitPrepare ==
    /\ EngineIdle
    /\ forwardCurve \in ForwardCurveSet
    /\ prepared = << >>
    /\ prepareDone = FALSE
    /\ RequestIdle
    /\ CacheIdle
    /\ HelpersIdle

\* map calls the callback on the next entry and keeps what it returns.
MapNext ==
    /\ ~prepareDone
    /\ Len(prepared) < Len(forwardCurve)
    /\ prepared' = Append(prepared, PrepareItem(forwardCurve[Len(prepared) + 1]))
    /\ UNCHANGED << forwardCurve, prepareDone >>
    /\ UNCHANGED besidesPrepare

\* map has gone through the list: the new list is returned.
MapReturn ==
    /\ ~prepareDone
    /\ Len(prepared) = Len(forwardCurve)
    /\ prepareDone' = TRUE
    /\ UNCHANGED << forwardCurve, prepared >>
    /\ UNCHANGED besidesPrepare

NextPrepare == MapNext \/ MapReturn

SpecPrepare == InitPrepare /\ [][NextPrepare]_vars

\* ---------------------------------------------------------------- storage.optimize
\* The limits of facilityParamsSchema and of numMonths.  Volumes and rates are in
\* MMBtu; the two unit costs and the discount rate are counted in hundredths.
CapacityMin == 1000

CapacityMax == 100000000

RateMin == 100

RateMax == 1000000

CostMax == 100

DiscountRateMax == 50

NumMonthsMin == 2

NumMonthsMax == 60

NumMonthsDefault == 12

ParamKeys == DOMAIN DEFAULT_FACILITY_PARAMS

\* One field of facilityParamsSchema: z.number().min(..).max(..).
FieldOK(k, v) ==
    CASE k = "capacity" -> CapacityMin <= v /\ v <= CapacityMax
      [] k \in {"maxInjectionRate", "maxWithdrawalRate"} -> RateMin <= v /\ v <= RateMax
      [] k \in {"injectionCost", "withdrawalCost"} -> 0 <= v /\ v <= CostMax
      [] k = "initialInventory" -> 0 <= v
      [] k = "discountRate" -> 0 <= v /\ v <= DiscountRateMax

\* The input passes the schema of storage.optimize.
ValidInput(req) ==
    /\ "numMonths" \in DOMAIN req =>
            NumMonthsMin <= req.numMonths /\ req.numMonths <= NumMonthsMax
    /\ "facilityParams" \in DOMAIN req =>
            \A k \in DOMAIN req.facilityParams : FieldOK(k, req.facilityParams[k])

\* { ...a, ...b }
Spread(a, b) == [k \in DOMAIN a \cup DOMAIN b |-> IF k \in DOMAIN b THEN b[k] ELSE a[k]]

\* What the schema hands to the handler: every .default(..) filled in;
\* facilityParams stays away when the request has none (.optional()).
ParseInput(req) ==
    [k \in DOMAIN req \cup {"numMonths"} |->
        IF k = "numMonths"
        THEN (IF "numMonths" \in DOMAIN req THEN req.numMonths ELSE NumMonthsDefault)
        ELSE Spread(DEFAULT_FACILITY_PARAMS, req.facilityParams)]

\* Variant: the handler goes on with initialInventory as requested.
NotClamped(p) == p

\* Variant: initialInventory is set to the capacity without the test.
ClampAlways(p) == [p EXCEPT !["initialInventory"] = p.capacity]

\* if (params.initialInventory > params.capacity) params.initialInventory = params.capacity
ClampInventory(p) ==
    IF p.initialInventory > p.capacity
    THEN [p EXCEPT !["initialInventory"] = p.capacity]
    ELSE p

\* const params = input.facilityParams ? { ...DEFAULT_FACILITY_PARAMS,
\* ...input.facilityParams } : DEFAULT_FACILITY_PARAMS: a new object, or the
\* shared one itself.
SharesDefaults(input) == "facilityParams" \notin DOMAIN input

ParamsOf(input) ==
    IF SharesDefaults(input) THEN defaults ELSE Spread(defaults, input.facilityParams)

\* params after the clamp.
ResolveParams(input) == ClampInventory(ParamsOf(input))

\* The values a request may give to each field: inside the limits, on them and
\* just outside.
RequestedParams ==
    [capacity : {999, 1000, 5000, 100000001}, initialInventory : {-1, 0, 5000, 6000},
     maxInjectionRate : {99, 100}, maxWithdrawalRate : {1000000, 1000001},
     injectionCost : {0, 101}, withdrawalCost : {1}, discountRate : {50, 51}]

\* Every facilityParams object that gives some of the fields.
FacilityParamsInputs ==
    { [k \in K |-> full[k]] : K \in SUBSET ParamKeys, full \in RequestedParams }

RequestSet ==
    { [k \in K |-> IF k = "numMonths" THEN n ELSE fp] :
        K \in SUBSET {"numMonths", "facilityParams"},
        n \in {1, 2, 61}, fp \in FacilityParamsInputs }

\* A storage.optimize request has arrived.
InitRequest ==
    /\ EngineIdle
    /\ PrepareIdle
    /\ CacheIdle
    /\ HelpersIdle
    /\ request \in RequestSet
    /\ parsed = << >>
    /\ handed = << >>
    /\ stage = "received"
    /\ defaults = DEFAULT_FACILITY_PARAMS
    /\ wrote = {}
    /\ requestNo = 1

besidesRequest == << engineVars, prepareVars, cacheVars, helperVars >>

\* .input(z.object({...})): the request is refused when a field is out of range.
ValidateInput ==
    /\ stage = "received"
    /\ IF ValidInput(request)
       THEN parsed' = ParseInput(request) /\ stage' = "accepted"
       ELSE parsed' = parsed /\ stage' = "rejected"
    /\ UNCHANGED << request, handed, defaults, wrote, requestNo >>
    /\ UNCHANGED besidesRequest

\* The handler works out params, clamps them in place and hands them to
\* optimizeStorage as they are.  When params is the shared object, what the
\* clamp writes is written to DEFAULT_FACILITY_PARAMS.
HandParams ==
    /\ stage = "accepted"
    /\ handed' = ResolveParams(parsed)
    /\ defaults' = IF SharesDefaults(parsed) THEN ResolveParams(parsed) ELSE defaults
    /\ wrote' = IF ResolveParams(parsed) = ParamsOf(parsed) THEN wrote
                ELSE wrote \cup {IF SharesDefaults(parsed) THEN "shared" ELSE "copy"}
    /\ stage' = "handed"
    /\ UNCHANGED << request, parsed, requestNo >>
    /\ UNCHANGED besidesRequest

NextRequest == ValidateInput \/ HandParams

SpecRequest == InitRequest /\ [][NextRequest]_vars

\* ---------------------------------------------------------------- requests in a row
\* The storage.optimize requests of a sequence: without input, with numMonths
\* alone, with an empty facilityParams, with an initialInventory above the
\* capacity asked for, with an initialInventory alone or equal to the capacity,
\* and two the schema refuses.
SequenceRequestSet ==
    { << >>,
      [numMonths |-> 2],
      [facilityParams |-> << >>],
      [facilityParams |-> [capacity |-> 5000, initialInventory |-> 6000]],
      [facilityParams |-> [initialInventory |-> 5000]],
      [facilityParams |-> [capacity |-> 1000, initialInventory |-> 1000]],
      [numMonths |-> 24,
       facilityParams |-> [capacity |-> 1000, initialInventory |-> 5000]],
      [facilityParams |-> [capacity |-> 999]],
      [numMonths |-> 61] }

InitSequence ==
    /\ EngineIdle
    /\ PrepareIdle
    /\ CacheIdle
    /\ HelpersIdle
    /\ request \in SequenceRequestSet
    /\ parsed = << >>
    /\ handed = << >>
    /\ stage = "received"
    /\ defaults = DEFAULT_FACILITY_PARAMS
    /\ wrote = {}
    /\ requestNo = 1

RequestOver == stage \in {"handed", "rejected", "replied"}

\* The next storage.optimize request arrives.  The server keeps
\* DEFAULT_FACILITY_PARAMS as the requests before left it.
NextOptimize ==
    /\ RequestOver
    /\ requestNo < MaxRequests
    /\ request' \in SequenceRequestSet
    /\ parsed' = << >>
    /\ handed' = << >>
    /\ stage' = "received"
    /\ requestNo' = requestNo + 1
    /\ UNCHANGED << defaults, wrote >>
    /\ UNCHANGED besidesRequest

\* storage.defaultParams: return DEFAULT_FACILITY_PARAMS.
DefaultParams ==
    /\ RequestOver
    /\ requestNo < MaxRequests
    /\ request' = << >>
    /\ parsed' = << >>
    /\ handed' = defaults
    /\ stage' = "replied"
    /\ requestNo' = requestNo + 1
    /\ UNCHANGED << defaults, wrote >>
    /\ UNCHANGED besidesRequest

NextSequence == ValidateInput \/ HandParams \/ NextOptimize \/ DefaultParams

SpecSequence == InitSequence /\ [][NextSequence]_vars

\* ---------------------------------------------------------------- futures router
\* const CACHE_TTL = 5 * 60 * 1000, in minutes.
CACHE_TTL == 5

\* The procedures that use apiCache, each with one argument.
Procedures == {"forwardCurve", "historical", "optimize"}

FuturesProcedures == {"forwardCurve", "historical"}

\* cacheKeys: storage.optimize looks its curve up under the key of forwardCurve.
KeyOf(proc) == IF proc = "historical" THEN "historical_30" ELSE "forward_curve_12"

\* At most two calls wait for their fetch at a time: pending holds the procedure
\* of each, and the second of two calls of one procedure is marked again.
Slots == [proc : Procedures, again : BOOLEAN]

\* The entry of pending for one more call of proc.
NewSlot(proc) == [proc |-> proc, again |-> [proc |-> proc, again |-> FALSE] \in pending]

\* What a fetch may bring: one of two curves, or the daily prices.
DataSet(proc) == IF proc = "historical" THEN {"prices"} ELSE {"curve A", "curve B"}

\* Variant: if (Date.now() >= entry.timestamp), every entry counts as expired.
NeverFresh(entry, t) == t >= entry.timestamp

\* if (Date.now() > entry.expiresAt)
IsExpired(entry, t) == t > entry.expiresAt

\* apiCache.get(key): the entry under key, when there is one that has not expired.
Fresh(key) == { e \in cache : e.key = key /\ ~IsExpired(e, now) }

\* The Map after get(key): an expired entry under key is deleted.
AfterGet(key) == { e \in cache : e.key # key \/ ~IsExpired(e, now) }

\* apiCache.set(key, { data, timestamp: Date.now() }, CACHE_TTL); by is the
\* procedure that stored the entry.
AfterSet(key, data, proc) ==
    { e \in cache : e.key # key }
        \cup { [key |-> key, data |-> data, timestamp |-> now,
                expiresAt |-> now + CACHE_TTL, by |-> proc] }

\* Math.round(cacheAge / 1000), in seconds.
CacheAge(entry) == 60 * (now - entry.timestamp)

MayCall == Cardinality(pending) < 2

besidesCache == << engineVars, prepareVars, requestVars, helperVars >>

InitCache ==
    /\ EngineIdle
    /\ PrepareIdle
    /\ RequestIdle
    /\ CacheIdle
    /\ HelpersIdle

\* futures.forwardCurve or futures.historical finds its data in the cache.
FuturesHit ==
    \E proc \in FuturesProcedures :
        /\ MayCall
        /\ \E e \in Fresh(KeyOf(proc)) :
              reply' = { [proc |-> proc, status |-> "ok",
                          body |-> [data |-> e.data, cached |-> TRUE,
                                    cacheAge |-> CacheAge(e)]] }
        /\ served' = served \cup {KeyOf(proc)}
        /\ UNCHANGED << cache, now, pending, firstSuccess >>
        /\ UNCHANGED besidesCache

\* It does not: the call starts its fetch and waits for it.
FuturesMiss ==
    \E proc \in FuturesProcedures :
        /\ MayCall
        /\ Fresh(KeyOf(proc)) = {}
        /\ cache' = AfterGet(KeyOf(proc))
        /\ pending' = pending \cup { NewSlot(proc) }
        /\ served' = served \cup {KeyOf(proc)}
        /\ UNCHANGED << now, reply, firstSuccess >>
        /\ UNCHANGED besidesCache

\* storage.optimize finds the curve in the cache and answers from it.
OptimizeHit ==
    /\ MayCall
    /\ \E e \in Fresh(KeyOf("optimize")) :
          reply' = { [proc |-> "optimize", status |-> "ok",
                      body |-> [forwardCurve |-> e.data]] }
    /\ UNCHANGED << cache, now, pending, firstSuccess, served >>
    /\ UNCHANGED besidesCache

\* It does not: it fetches the curve itself.
OptimizeMiss ==
    /\ MayCall
    /\ Fresh(KeyOf("optimize")) = {}
    /\ cache' = AfterGet(KeyOf("optimize"))
    /\ pending' = pending \cup { NewSlot("optimize") }
    /\ UNCHANGED << now, reply, firstSuccess, served >>
    /\ UNCHANGED besidesCache

\* A fetch comes back with data: the call stores it and answers.
FetchDone ==
    \E p \in pending : \E d \in DataSet(p.proc) :
        /\ cache' = AfterSet(KeyOf(p.proc), d, p.proc)
        /\ pending' = pending \ {p}
        /\ reply' = { [proc |-> p.proc, status |-> "ok",
                       body |-> IF p.proc = "optimize" THEN [forwardCurve |-> d]
                                ELSE [data |-> d, cached |-> FALSE]] }
        /\ firstSuccess' =
              IF p.proc \in FuturesProcedures
                   /\ \A f \in firstSuccess : f.key # KeyOf(p.proc)
              THEN firstSuccess \cup
                     { [key |-> KeyOf(p.proc), data |-> d, at |-> now,
                        alone |-> \A q \in pending \ {p} : KeyOf(q.proc) # KeyOf(p.proc)] }
              ELSE firstSuccess
        /\ UNCHANGED << now, served >>
        /\ UNCHANGED besidesCache

\* A fetch fails: the call throws and nothing is stored.
FetchFail ==
    \E p \in pending :
        /\ pending' = pending \ {p}
        /\ reply' = { [proc |-> p.proc, status |-> "error",
                       body |-> [message |-> "Failed to fetch"]] }
        /\ UNCHANGED << cache, now, firstSuccess, served >>
        /\ UNCHANGED besidesCache

\* apiCache.clear()
ClearCache ==
    /\ cache # {}
    /\ cache' = {}
    /\ firstSuccess' = {}
    /\ served' = {}
    /\ UNCHANGED << now, pending, reply >>
    /\ UNCHANGED besidesCache

\* futures.cacheStatus: getStats drops the expired entries.
CacheStatus ==
    /\ cache' = { e \in cache : ~IsExpired(e, now) }
    /\ cache' # cache
    /\ UNCHANGED << now, pending, reply, firstSuccess, served >>
    /\ UNCHANGED besidesCache

\* A minute goes by.
Tick ==
    /\ now < MaxTime
    /\ now' = now + 1
    /\ UNCHANGED << cache, pending, reply, firstSuccess, served >>
    /\ UNCHANGED besidesCache

NextCache ==
    \/ FuturesHit \/ FuturesMiss \/ OptimizeHit \/ OptimizeMiss
    \/ FetchDone \/ FetchFail \/ ClearCache \/ CacheStatus \/ Tick

SpecCache == InitCache /\ [][NextCache]_vars

\* ---------------------------------------------------------------- withRetry
\* (server/fetchNGData.ts)
RetriesSet == 0..MaxRetries

\* The delays of the two callers: 500 ms for a quote, RETRY_DELAY_MS otherwise.
DelaySet == {500, 1000}

\* What an invocation of operation may resolve to, and what it may throw.
ValueSet == {"quote A", "quote B"}
ErrorSet == {"timeout", "not found"}

Attempted(ok, v) == [kind |-> "attempt", ok |-> ok, value |-> v, ms |-> 0]
Waited(ms) == [kind |-> "wait", ok |-> FALSE, value |-> Undefined, ms |-> ms]

\* Variant: if (i < retries).
AnyAttemptLeft(i, n) == i < n

\* if (i < retries - 1)
MoreAttemptsLeft(i, n) == i < n - 1

\* delayMs * (i + 1)
BackoffDelay(ms, i) == ms * (i + 1)

besidesRetry ==
    << engineVars, prepareVars, requestVars, cacheVars, memoryVars, bridgeVars >>

\* withRetry(operation, retries, delayMs) has just been entered.
InitRetry ==
    /\ EngineIdle
    /\ PrepareIdle
    /\ RequestIdle
    /\ CacheIdle
    /\ MemoryIdle
    /\ BridgeIdle
    /\ retries \in RetriesSet
    /\ delayMs \in DelaySet
    /\ attempt = 0
    /\ lastError = Undefined
    /\ retryPc = "test"
    /\ outcome = Undefined
    /\ trace = << >>

\* for (...; i < retries; ...): another round, or throw lastError.
LoopTest ==
    /\ retryPc = "test"
    /\ IF attempt < retries
       THEN /\ retryPc' = "operation"
            /\ trace' = trace
            /\ outcome' = outcome
       ELSE /\ retryPc' = "rejected"
            /\ trace' = trace
            /\ outcome' = lastError
    /\ UNCHANGED << retries, delayMs, attempt, lastError >>
    /\ UNCHANGED besidesRetry

\* return await operation(): the operation resolves.
OperationResolves ==
    /\ retryPc = "operation"
    /\ \E v \in ValueSet :
        /\ trace' = Append(trace, Attempted(TRUE, v))
        /\ outcome' = v
    /\ retryPc' = "returned"
    /\ UNCHANGED << retries, delayMs, attempt, lastError >>
    /\ UNCHANGED besidesRetry

\* catch (error): the operation throws; lastError = error, and the delay
\* follows unless this was the last round.
OperationThrows ==
    /\ retryPc = "operation"
    /\ \E e \in ErrorSet :
        /\ trace' = Append(trace, Attempted(FALSE, e))
        /\ lastError' = e
    /\ IF MoreAttemptsLeft(attempt, retries)
       THEN retryPc' = "delay" /\ attempt' = attempt
       ELSE retryPc' = "test" /\ attempt' = attempt + 1
    /\ UNCHANGED << retries, delayMs, outcome >>
    /\ UNCHANGED besidesRetry

\* await delay(delayMs * (i + 1)) is over; i++.
DelayElapsed ==
    /\ retryPc = "delay"
    /\ trace' = Append(trace, Waited(BackoffDelay(delayMs, attempt)))
    /\ attempt' = attempt + 1
    /\ retryPc' = "test"
    /\ UNCHANGED << retries, delayMs, lastError, outcome >>
    /\ UNCHANGED besidesRetry

NextRetry == LoopTest \/ OperationResolves \/ OperationThrows \/ DelayElapsed

SpecRetry == InitRetry /\ [][NextRetry]_vars

\* ---------------------------------------------------------------- MemoryCache
\* (the class behind apiCache)
\* new MemoryCache(5 * 60 * 1000): the default TTL, in minutes.
DefaultTTL == 5

Null == "null"

CacheKeySet == { KeyOf(proc) : proc \in FuturesProcedures }

\* The values stored under a key: two curves, one table of past prices.
CachedValues(key) ==
    IF key = KeyOf("forwardCurve") THEN {"curve A", "curve B"} ELSE {"prices"}

\* The optional argument ttlMs of set: left out ({}), or given as 0.
TtlArgs == { {}, {0} }

\* opt ?? d
NullishOr(opt, d) == IF opt = {} THEN d ELSE CHOOSE x \in opt : TRUE

\* Date.now() > entry.expiresAt
Expired(entry, t) == t > entry.expiresAt

\* Variant: the entry keeps the expiry of the entry it replaces.
KeepExpiry(st, key, data, ttlMs, t) ==
    [k \in DOMAIN st \cup {key} |->
        IF k # key THEN st[k]
        ELSE [data |-> data, timestamp |-> t,
              expiresAt |-> IF key \in DOMAIN st THEN st[key].expiresAt
                            ELSE t + NullishOr(ttlMs, DefaultTTL)]]

\* this.cache.set(key, { data, timestamp: now, expiresAt: now + ttl })
WithEntry(st, key, data, ttlMs, t) ==
    [k \in DOMAIN st \cup {key} |->
        IF k # key THEN st[k]
        ELSE [data |-> data, timestamp |-> t,
              expiresAt |-> t + NullishOr(ttlMs, DefaultTTL)]]

\* this.cache.delete(key)
Without(st, key) == [k \in DOMAIN st \ {key} |-> st[k]]

\* The Map after get(key) or has(key): an expired entry is deleted.
Purged(st, key, t) ==
    IF key \in DOMAIN st /\ Expired(st[key], t) THEN Without(st, key) ELSE st

\* The Map after the clean-up of getStats.
Swept(st, t) == [k \in { x \in DOMAIN st : ~Expired(st[x], t) } |-> st[k]]

\* What get(key) returns.
GetResult(st, key, t) ==
    IF key \notin DOMAIN st THEN Null
    ELSE IF Expired(st[key], t) THEN Null
    ELSE st[key].data

\* What has(key) returns.
HasResult(st, key, t) ==
    IF key \notin DOMAIN st THEN FALSE
    ELSE IF Expired(st[key], t) THEN FALSE
    ELSE TRUE

\* What getTTL(key) returns: no number for null, or the remaining time.
GetTTLResult(st, key, t) ==
    IF key \notin DOMAIN st THEN {}
    ELSE LET remaining == st[key].expiresAt - t
         IN  IF remaining > 0 THEN {remaining} ELSE {}

\* The record of a call and of what it returned.
Answer(op, key, data, found, remaining, keys) ==
    [op |-> op, key |-> key, at |-> clock, data |-> data, found |-> found,
     remaining |-> remaining, keys |-> keys]

besidesMemory ==
    << engineVars, prepareVars, requestVars, cacheVars, retryVars, bridgeVars >>

InitMemory ==
    /\ EngineIdle
    /\ PrepareIdle
    /\ RequestIdle
    /\ CacheIdle
    /\ RetryIdle
    /\ MemoryIdle
    /\ BridgeIdle

MemSet ==
    \E key \in CacheKeySet, ttlMs \in TtlArgs : \E data \in CachedValues(key) :
        /\ store' = WithEntry(store, key, data, ttlMs, clock)
        /\ lastSet' = [k \in DOMAIN lastSet \cup {key} |->
                          IF k # key THEN lastSet[k]
                          ELSE [at |-> clock, data |-> data,
                                ttl |-> NullishOr(ttlMs, DefaultTTL)]]
        /\ answer' = Answer("set", key, Null, FALSE, {}, {})
        /\ UNCHANGED clock
        /\ UNCHANGED besidesMemory

MemGet ==
    \E key \in CacheKeySet :
        /\ store' = Purged(store, key, clock)
        /\ answer' = Answer("get", key, GetResult(store, key, clock), FALSE, {}, {})
        /\ UNCHANGED << clock, lastSet >>
        /\ UNCHANGED besidesMemory

MemHas ==
    \E key \in CacheKeySet :
        /\ store' = Purged(store, key, clock)
        /\ answer' = Answer("has", key, Null, HasResult(store, key, clock), {}, {})
        /\ UNCHANGED << clock, lastSet >>
        /\ UNCHANGED besidesMemory

MemGetTTL ==
    \E key \in CacheKeySet :
        /\ answer' = Answer("getTTL", key, Null, FALSE, GetTTLResult(store, key, clock), {})
        /\ UNCHANGED << store, clock, lastSet >>
        /\ UNCHANGED besidesMemory

MemGetStats ==
    /\ store' = Swept(store, clock)
    /\ answer' = Answer("getStats", Null, Null, FALSE, {}, DOMAIN store')
    /\ UNCHANGED << clock, lastSet >>
    /\ UNCHANGED besidesMemory

MemDelete ==
    \E key \in CacheKeySet :
        /\ store' = Without(store, key)
        /\ answer' = Answer("delete", key, Null, key \in DOMAIN store, {}, {})
        /\ UNCHANGED << clock, lastSet >>
        /\ UNCHANGED besidesMemory

MemClear ==
    /\ store' = << >>
    /\ answer' = Answer("clear", Null, Null, FALSE, {}, {})
    /\ UNCHANGED << clock, lastSet >>
    /\ UNCHANGED besidesMemory

\* A minute goes by.
MemTick ==
    /\ clock < MaxTime
    /\ clock' = clock + 1
    /\ UNCHANGED << store, answer, lastSet >>
    /\ UNCHANGED besidesMemory

NextMemory ==
    \/ MemSet \/ MemGet \/ MemHas \/ MemGetTTL \/ MemGetStats
    \/ MemDelete \/ MemClear \/ MemTick

SpecMemory == InitMemory /\ [][NextMemory]_vars

\* ---------------------------------------------------------------- direct calls
\* optimizeStorage called without the router in front of it: nothing has
\* clamped initialInventory to the capacity.
DirectInventorySet == {0, 1, 3, 7, 9}

DirectCurveSet == { c \in CurveSet : \A k \in DOMAIN c : c[k].daysInMonth = 1 }

DirectParamsSet ==
    { p \in [capacity : CapSet, maxInjectionRate : RateLimitSet,
             maxWithdrawalRate : RateLimitSet, injectionCost : {0},
             withdrawalCost : {0}, initialInventory : DirectInventorySet,
             discountRate : RateSet] :
        p.maxInjectionRate # p.maxWithdrawalRate }

InitDirect ==
    /\ forwardPrices \in DirectCurveSet
    /\ params \in DirectParamsSet
    /\ pc = "start"
    /\ positiveSpread = << >>
    /\ idx = 1
    /\ injections = << >>
    /\ withdrawals = << >>
    /\ inventory = << >>
    /\ remainingInjectionCapacity = << >>
    /\ remainingWithdrawalCapacity = << >>
    /\ totalValue = 0
    /\ result = NoResult
    /\ calls = 1
    /\ PrepareIdle
    /\ RequestIdle
    /\ CacheIdle
    /\ HelpersIdle

SpecDirect == InitDirect /\ [][Next]_vars

\* ---------------------------------------------------------------- gas storage client
\* (runGasStorageOptimization and its temporary file)
RunIds == 1..MaxRuns

NewRun == [pc |-> "idle", csvPath |-> -1, read |-> 0, missing |-> FALSE,
           outcome |-> "none"]

\* path.join(tmpDir, `forward_curve_${Date.now()}.csv`): the path call c gets
\* at time t.
TmpFile(c, t) == t

\* fs.writeFileSync(tmpFile, csvContent): the file is created or overwritten.
Written(files, path, content) ==
    [q \in DOMAIN files \cup {path} |-> IF q = path THEN content ELSE files[q]]

\* cleanupTempFile: if (fs.existsSync(filePath)) fs.unlinkSync(filePath)
CleanedUp(files, path) == [q \in DOMAIN files \ {path} |-> files[q]]

besidesBridge ==
    << engineVars, prepareVars, requestVars, cacheVars, retryVars, memoryVars >>

InitBridge ==
    /\ EngineIdle
    /\ PrepareIdle
    /\ RequestIdle
    /\ CacheIdle
    /\ RetryIdle
    /\ MemoryIdle
    /\ tmpFiles = << >>
    /\ millis = 0
    /\ runs = [c \in RunIds |-> NewRun]

\* initial_inventory > capacity: the call returns success: false at once.
RefuseRun ==
    \E c \in RunIds :
        /\ runs[c].pc = "idle"
        /\ runs' = [runs EXCEPT ![c].pc = "settled", ![c].outcome = "refused"]
        /\ UNCHANGED << tmpFiles, millis >>
        /\ UNCHANGED besidesBridge

\* The call writes its forward curve to the temporary file and spawns python3
\* with the path in its input.
WriteAndSpawn ==
    \E c \in RunIds :
        /\ runs[c].pc = "idle"
        /\ tmpFiles' = Written(tmpFiles, TmpFile(c, millis), c)
        /\ runs' = [runs EXCEPT ![c].pc = "running", ![c].csvPath = TmpFile(c, millis)]
        /\ UNCHANGED millis
        /\ UNCHANGED besidesBridge

\* The Python process opens forward_curve_path and reads what is there.
PythonReads ==
    \E c \in RunIds :
        /\ runs[c].pc = "running"
        /\ runs[c].read = 0
        /\ ~runs[c].missing
        /\ IF runs[c].csvPath \in DOMAIN tmpFiles
           THEN runs' = [runs EXCEPT ![c].read = tmpFiles[runs[c].csvPath]]
           ELSE runs' = [runs EXCEPT ![c].missing = TRUE]
        /\ UNCHANGED << tmpFiles, millis >>
        /\ UNCHANGED besidesBridge

\* The process closes with a result, and finally the path is cleaned up.
RunResolves ==
    \E c \in RunIds :
        /\ runs[c].pc = "running"
        /\ runs[c].read # 0
        /\ runs' = [runs EXCEPT ![c].pc = "settled", ![c].outcome = "resolved"]
        /\ tmpFiles' = CleanedUp(tmpFiles, runs[c].csvPath)
        /\ UNCHANGED millis
        /\ UNCHANGED besidesBridge

\* The process fails to spawn, exits without output or prints no JSON: the call
\* rejects, and finally the path is cleaned up.
RunRejects ==
    \E c \in RunIds :
        /\ runs[c].pc = "running"
        /\ runs' = [runs EXCEPT ![c].pc = "settled", ![c].outcome = "rejected"]
        /\ tmpFiles' = CleanedUp(tmpFiles, runs[c].csvPath)
        /\ UNCHANGED millis
        /\ UNCHANGED besidesBridge

\* A millisecond goes by.
TickMillis ==
    /\ millis < MaxMillis
    /\ millis' = millis + 1
    /\ UNCHANGED << tmpFiles, runs >>
    /\ UNCHANGED besidesBridge

NextBridge ==
    RefuseRun \/ WriteAndSpawn \/ PythonReads \/ RunResolves \/ RunRejects \/ TickMillis

SpecBridge == InitBridge /\ [][NextBridge]_vars

\* ---------------------------------------------------------------- shorthands
N == Len(forwardPrices)

Periods == 1..N

InLoopOrDone == pc \in {"loop", "done"} /\ N >= 2

\* The inventory trajectory of the volumes committed so far.
Running == Trajectory(injections, withdrawals, params.initialInventory)

Spreads == buildSpreadMatrix(forwardPrices, params)

\* The result of a run that went through the greedy loop is available.
DoneLoop == pc = "done" /\ N >= 2

MaxInj(k) == params.maxInjectionRate * forwardPrices[k].daysInMonth

MaxWd(k) == params.maxWithdrawalRate * forwardPrices[k].daysInMonth

\* ---------------------------------------------------------------- C1
\* C1 as stated: in the result every endingInventory is within [0, capacity] and
\* peakInventory <= capacity, and the running inventory is within [0, capacity]
\* after every commit.
C1_AsStated ==
    /\ InLoopOrDone => \A k \in Periods : 0 <= Running[k] /\ Running[k] <= params.capacity
    /\ pc = "done" =>
        /\ \A k \in Periods :
             /\ 0 <= result.schedule[k].endingInventory
             /\ result.schedule[k].endingInventory <= params.capacity
        /\ result.peakInventory <= params.capacity

\* C1 amended: the running inventory is within [0, capacity] after every commit;
\* the reported endingInventory and peakInventory are rounded to whole units, so
\* they are >= 0 and exceed capacity by at most half a unit, hence by nothing
\* when capacity is a whole number.
C1_CapacityBound ==
    /\ InLoopOrDone => \A k \in Periods : 0 <= Running[k] /\ Running[k] <= params.capacity
    /\ pc = "done" =>
        /\ \A k \in Periods :
             /\ 0 <= result.schedule[k].endingInventory
             /\ 2 * (result.schedule[k].endingInventory - params.capacity) <= VolDen
             /\ params.capacity % VolDen = 0 =>
                    result.schedule[k].endingInventory <= params.capacity
        /\ 2 * (result.peakInventory - params.capacity) <= VolDen
        /\ params.capacity % VolDen = 0 => result.peakInventory <= params.capacity

\* A finished run in which a commit filled the facility to capacity exactly, from a
\* lower starting inventory.
C1_Witness ==
    /\ DoneLoop
    /\ params.initialInventory < params.capacity
    /\ \E k \in Periods : Running[k] = params.capacity /\ injections[k] > 0
    /\ \E k \in Periods : remainingInjectionCapacity[k] > 0 /\ injections[k] > 0

\* ---------------------------------------------------------------- C2
\* C2 as stated: in the result, injection <= maxInjectionRate * daysInMonth and
\* withdrawal <= maxWithdrawalRate * daysInMonth in every period.
C2_AsStated ==
    pc = "done" =>
        \A k \in Periods :
            /\ result.schedule[k].injection <= MaxInj(k)
            /\ result.schedule[k].withdrawal <= MaxWd(k)

\* C2 amended: the committed injection and withdrawal of every period stay within
\* rate * daysInMonth after every commit, together with the remaining capacities
\* (committed + remaining = limit); the reported volumes are rounded to whole
\* units, so they exceed the limit by at most half a unit, hence by nothing when
\* the limit is a whole number.
C2_RateBounds ==
    /\ InLoopOrDone =>
        \A k \in Periods :
            /\ injections[k] >= 0 /\ injections[k] <= MaxInj(k)
            /\ withdrawals[k] >= 0 /\ withdrawals[k] <= MaxWd(k)
            /\ injections[k] + remainingInjectionCapacity[k] = MaxInj(k)
            /\ withdrawals[k] + remainingWithdrawalCapacity[k] = MaxWd(k)
    /\ pc = "done" =>
        \A k \in Periods :
            /\ 2 * (result.schedule[k].injection - MaxInj(k)) <= VolDen
            /\ 2 * (result.schedule[k].withdrawal - MaxWd(k)) <= VolDen
            /\ MaxInj(k) % VolDen = 0 => result.schedule[k].injection <= MaxInj(k)
            /\ MaxWd(k) % VolDen = 0 => result.schedule[k].withdrawal <= MaxWd(k)

\* A finished run in which one period injected up to its limit for two different
\* withdrawal periods, and one in which a period withdrew up to its limit.
C2_Witness ==
    /\ DoneLoop
    /\ \E k \in Periods :
        /\ injections[k] = MaxInj(k)
        /\ \A m \in Periods \ {k} : injections[m] = 0
        /\ Cardinality({j \in Periods : withdrawals[j] > 0}) >= 2
        /\ \E j \in Periods : withdrawals[j] = MaxWd(j)

\* ---------------------------------------------------------------- C3
\* C3 as stated: with initialInventory = 0 the result has totalInjection =
\* totalWithdrawal, and in general the last endingInventory equals
\* initialInventory + totalInjection - totalWithdrawal exactly.
C3_AsStated ==
    pc = "done" =>
        /\ params.initialInventory = 0 => result.totalInjection = result.totalWithdrawal
        /\ N >= 1 =>
             result.schedule[N].endingInventory =
                params.initialInventory + result.totalInjection - result.totalWithdrawal

\* C3 amended: with initialInventory = 0 the result has totalInjection =
\* totalWithdrawal, and the last endingInventory equals initialInventory +
\* totalInjection - totalWithdrawal whenever initialInventory is a whole number
\* (for n >= 2 the three reported figures are rounded to whole units).
C3_MassBalance ==
    pc = "done" =>
        /\ params.initialInventory = 0 => result.totalInjection = result.totalWithdrawal
        /\ (N >= 1 /\ params.initialInventory % VolDen = 0) =>
             result.schedule[N].endingInventory =
                params.initialInventory + result.totalInjection - result.totalWithdrawal

\* A finished run from an empty facility that moved a fractional total volume, so
\* that the reported totals are rounded figures.
C3_Witness ==
    /\ DoneLoop
    /\ params.initialInventory = 0
    /\ result.totalInjection > 0
    /\ result.totalInjection # SumTo(injections, N)
    /\ Cardinality({k \in Periods : injections[k] > 0}) >= 2

\* ---------------------------------------------------------------- C4
\* C4: every step of the greedy loop that changes injections, withdrawals, the
\* remaining capacities or totalValue commits one volume v > 0 to one pair (i, j)
\* with i < j and spread[i][j] > 0; no other pair ever changes them.
C4_OnlyPositivePairs ==
    [][(pc = "loop" /\ (\/ injections' # injections
                        \/ withdrawals' # withdrawals
                        \/ remainingInjectionCapacity' # remainingInjectionCapacity
                        \/ remainingWithdrawalCapacity' # remainingWithdrawalCapacity
                        \/ totalValue' # totalValue))
        => \E i, j \in Periods :
             /\ i < j
             /\ (forwardPrices[j].price - params.withdrawalCost)
                    * getDiscountFactor(j - 1, params.discountRate)
                  > (forwardPrices[i].price + params.injectionCost)
                    * getDiscountFactor(i - 1, params.discountRate)
             /\ injections'[i] > injections[i]
             /\ injections' = [injections EXCEPT ![i] = injections'[i]]
             /\ withdrawals' =
                  [withdrawals EXCEPT ![j] = @ + (injections'[i] - injections[i])]
             /\ totalValue' =
                  totalValue + (injections'[i] - injections[i]) * Spreads[i][j]]_vars

\* A finished run that committed volume although one pair had spread 0 and another
\* a negative spread.
C4_Witness ==
    /\ DoneLoop
    /\ totalValue > 0
    /\ \E i, j \in Periods : i < j /\ Spreads[i][j] = 0
    /\ \E i, j \in Periods : i < j /\ Spreads[i][j] < 0

\* ---------------------------------------------------------------- C5
\* C5: totalValue is never negative, it never decreases from one step of the run
\* to the next, and the totalValue of the result is never negative.
C5_NonNegativeValue ==
    /\ [](totalValue >= 0 /\ result.totalValue >= 0)
    /\ [][totalValue' >= totalValue]_vars

\* A finished run with two committed pairs and a positive reported value.
C5_Witness ==
    /\ DoneLoop
    /\ Cardinality({k \in Periods : injections[k] > 0}) >= 2
    /\ result.totalValue > 0

\* ---------------------------------------------------------------- C6
\* C6: for n < 2 the call returns without entering the greedy loop; the schedule
\* has n entries with injection = withdrawal = netFlow = 0 and endingInventory =
\* initialInventory, and totalValue = totalInjection = totalWithdrawal = 0 and
\* peakInventory = initialInventory.
C6_Degenerate ==
    N < 2 =>
        /\ pc # "loop"
        /\ injections = << >> /\ positiveSpread = << >>
        /\ pc = "done" =>
            /\ Len(result.schedule) = N
            /\ \A k \in Periods :
                /\ result.schedule[k].injection = 0
                /\ result.schedule[k].withdrawal = 0
                /\ result.schedule[k].netFlow = 0
                /\ result.schedule[k].endingInventory = params.initialInventory
            /\ result.totalValue = 0
            /\ result.totalInjection = 0
            /\ result.totalWithdrawal = 0
            /\ result.peakInventory = params.initialInventory

\* The call has returned for a single period and a fractional initialInventory.
C6_Witness ==
    /\ pc = "done"
    /\ N = 1
    /\ params.initialInventory % VolDen # 0

\* ---------------------------------------------------------------- C7
NoPositivePair ==
    \A i, j \in Periods :
        i < j =>
            (forwardPrices[j].price - params.withdrawalCost)
                * getDiscountFactor(j - 1, params.discountRate)
              <= (forwardPrices[i].price + params.injectionCost)
                * getDiscountFactor(i - 1, params.discountRate)

ZeroActivity ==
    /\ \A k \in Periods :
        /\ result.schedule[k].injection = 0
        /\ result.schedule[k].withdrawal = 0
    /\ result.totalValue = 0

\* C7 as stated: without a positive spread the result has zero injection and
\* withdrawal in every period, totalValue = 0 and every endingInventory equal to
\* initialInventory.
C7_AsStated ==
    (pc = "done" /\ NoPositivePair) =>
        /\ ZeroActivity
        /\ \A k \in Periods :
            result.schedule[k].endingInventory = params.initialInventory

\* C7 amended: without a positive spread the result has zero injection and
\* withdrawal in every period and totalValue = 0, nothing is committed in the
\* loop, and every endingInventory equals Math.round(initialInventory) for
\* n >= 2 (initialInventory itself for n < 2 or a whole initialInventory).
C7_NoPositiveSpread ==
    /\ (InLoopOrDone /\ NoPositivePair) =>
        /\ positiveSpread = << >>
        /\ \A k \in Periods : injections[k] = 0 /\ withdrawals[k] = 0
        /\ totalValue = 0
    /\ (pc = "done" /\ NoPositivePair) =>
        /\ ZeroActivity
        /\ \A k \in Periods :
            /\ N >= 2 =>
                result.schedule[k].endingInventory = RoundVol(params.initialInventory)
            /\ (N < 2 \/ params.initialInventory % VolDen = 0) =>
                result.schedule[k].endingInventory = params.initialInventory

\* A finished run over three periods without a positive spread, though not a flat
\* curve, in a facility that had room and a pair with spread 0.
C7_Witness ==
    /\ DoneLoop
    /\ N = 3
    /\ NoPositivePair
    /\ params.initialInventory < params.capacity
    /\ \E i, j \in Periods : forwardPrices[i].price # forwardPrices[j].price
    /\ \E i, j \in Periods : i < j /\ Spreads[i][j] = 0

\* ---------------------------------------------------------------- C8
FlatCurve == \A i, j \in Periods : forwardPrices[i].price = forwardPrices[j].price

\* C8 as stated: for a flat price curve the result has totalValue <= 0.
C8_AsStated == (pc = "done" /\ FlatCurve) => result.totalValue <= 0

\* C8 amended: for a flat price curve whose price is not below -injectionCost
\* (with costs >= 0 and discountRate >= 0), no pair has a positive spread,
\* nothing is committed and the result has totalValue = 0.
C8_FlatCurve ==
    (FlatCurve /\ \A k \in Periods : forwardPrices[k].price + params.injectionCost >= 0) =>
        /\ positiveSpread = << >>
        /\ totalValue = 0
        /\ \A k \in DOMAIN injections : injections[k] = 0 /\ withdrawals[k] = 0
        /\ pc = "done" => result.totalValue = 0

\* A finished run over a flat curve of three periods at a positive price, with
\* discounting, no costs and room in the facility.
C8_Witness ==
    /\ DoneLoop
    /\ N = 3
    /\ FlatCurve
    /\ forwardPrices[1].price > 0
    /\ params.discountRate = "pos"
    /\ params.injectionCost = 0 /\ params.withdrawalCost = 0
    /\ params.initialInventory < params.capacity

\* ---------------------------------------------------------------- C9
\* Prices never fall, and the rise from the first to the last period exceeds
\* injectionCost + withdrawalCost.
RisingCurve ==
    /\ N >= 2
    /\ \A k \in 1..(N - 1) : forwardPrices[k].price <= forwardPrices[k + 1].price
    /\ forwardPrices[N].price - forwardPrices[1].price
         > params.injectionCost + params.withdrawalCost

RECURSIVE WeightedPrice(_, _)
\* sum over periods 1..k of vol[k] * price[k]
WeightedPrice(vol, k) ==
    IF k = 0 THEN 0 ELSE WeightedPrice(vol, k - 1) + vol[k] * forwardPrices[k].price

ScheduleInjection == [k \in Periods |-> result.schedule[k].injection]

ScheduleWithdrawal == [k \in Periods |-> result.schedule[k].withdrawal]

\* C9 as stated: on such a curve the result has totalValue > 0 and the
\* withdrawal-weighted average price exceeds the injection-weighted one.
C9_AsStated ==
    (pc = "done" /\ RisingCurve) =>
        /\ result.totalValue > 0
        /\ result.totalInjection > 0 /\ result.totalWithdrawal > 0
        /\ WeightedPrice(ScheduleWithdrawal, N) * SumTo(ScheduleInjection, N)
             > WeightedPrice(ScheduleInjection, N) * SumTo(ScheduleWithdrawal, N)

\* C9 amended: on such a curve, when in addition some pair has a positive
\* discounted spread and initialInventory < capacity (rates and period lengths
\* positive), the value accumulated by the loop is > 0 and the withdrawal-weighted
\* average price of the committed volumes exceeds the injection-weighted one; the
\* reported totalValue is that value rounded to cents, so it is >= 0, and > 0 once
\* the value reaches half a cent.
C9_RisingCurve ==
    (pc = "done" /\ RisingCurve /\ ~NoPositivePair
        /\ params.initialInventory < params.capacity) =>
        /\ totalValue > 0
        /\ SumTo(injections, N) > 0
        /\ SumTo(injections, N) = SumTo(withdrawals, N)
        /\ WeightedPrice(withdrawals, N) > WeightedPrice(injections, N)
        /\ result.totalValue >= 0
        /\ 2 * totalValue >= CentUnits(params) => result.totalValue > 0

\* A finished run on a curve that rises and then stays, with discounting and
\* costs, whose value is positive but is reported as 0 after rounding.
C9_Witness ==
    /\ DoneLoop
    /\ N = 3
    /\ RisingCurve
    /\ forwardPrices[2].price = forwardPrices[3].price
    /\ params.discountRate = "pos"
    /\ params.injectionCost + params.withdrawalCost > 0
    /\ totalValue > 0
    /\ result.totalValue = 0

\* ---------------------------------------------------------------- C11
RECURSIVE GreedyFrom(_, _, _, _, _, _, _, _)
\* The greedy loop from entry k on, as a function of the arguments alone.
GreedyFrom(entries, k, inj, wd, remInj, remWd, tv, p) ==
    IF k > Len(entries) THEN [inj |-> inj, wd |-> wd, tv |-> tv]
    ELSE LET e == entries[k]
             v == EntryVolume(e, inj, wd, remInj, remWd, p)
         IN  IF v > 0
             THEN GreedyFrom(entries, k + 1,
                             [inj EXCEPT ![e.i] = @ + v], [wd EXCEPT ![e.j] = @ + v],
                             [remInj EXCEPT ![e.i] = @ - v], [remWd EXCEPT ![e.j] = @ - v],
                             tv + v * e.spread, p)
             ELSE GreedyFrom(entries, k + 1, inj, wd, remInj, remWd, tv, p)

\* What optimizeStorage(prices, p) returns when it is the only call ever made.
RunAlone(prices, p) ==
    LET n == Len(prices)
        zero == [k \in 1..n |-> 0]
        entries == SortEntries(CollectPairs(buildSpreadMatrix(prices, p), n, 1, 2))
        end == GreedyFrom(entries, 1, zero, zero,
                   [k \in 1..n |-> getMaxMonthlyInjection(p, prices[k].daysInMonth)],
                   [k \in 1..n |-> getMaxMonthlyWithdrawal(p, prices[k].daysInMonth)],
                   0, p)
    IN  IF IsDegenerate(n) THEN EarlyResult(prices, p)
        ELSE BuildResult(prices, p, end.inj, end.wd, end.tv)

\* C11: while a call runs, its forwardPrices and params stay as they were passed,
\* and whatever calls came before it, the result it returns is the result of the
\* same call run alone.
C11_NoStateBetweenCalls ==
    /\ [](pc = "done" => result = RunAlone(forwardPrices, params))
    /\ [][pc # "done" => (forwardPrices' = forwardPrices /\ params' = params)]_vars

\* A second call has gone through the greedy loop and has returned a schedule
\* with volume and value.
C11_Witness ==
    /\ DoneLoop
    /\ calls = 2
    /\ result.totalInjection > 0
    /\ result.totalValue > 0
\* ---------------------------------------------------------------- C12
IsWhole(x) == x % VolDen = 0

\* Every committed volume of the run is a whole number of units.
WholeVolumes == N >= 2 => \A k \in Periods : IsWhole(injections[k]) /\ IsWhole(withdrawals[k])

\* schedule[k - 1].endingInventory, or initialInventory in the first period.
PreviousInventory(k) ==
    IF k = 1 THEN params.initialInventory ELSE result.schedule[k - 1].endingInventory

\* The schedule has one entry per period, in order, with the period's month and
\* price, netFlow = injection - withdrawal and endingInventory = previous +
\* injection - withdrawal.
ScheduleReplays ==
    /\ DOMAIN result.schedule = Periods
    /\ \A k \in Periods :
        LET e == result.schedule[k]
        IN  /\ e.month = forwardPrices[k].month
            /\ e.price = forwardPrices[k].price
            /\ e.netFlow = e.injection - e.withdrawal
            /\ e.endingInventory = PreviousInventory(k) + e.injection - e.withdrawal

\* C12 as stated: when every injection and withdrawal is a whole number, the
\* schedule replays as above.
C12_AsStated == (pc = "done" /\ WholeVolumes) => ScheduleReplays

\* C12 amended: the same when initialInventory is a whole number too, or the
\* curve has fewer than two periods (nothing is rounded then).
C12_ScheduleReplay ==
    (pc = "done" /\ WholeVolumes /\ (N < 2 \/ IsWhole(params.initialInventory))) =>
        ScheduleReplays

\* A finished run over three periods from a whole, non-zero initialInventory that
\* injected a whole volume in the first period and withdrew it in the last.
C12_Witness ==
    /\ DoneLoop
    /\ N = 3
    /\ WholeVolumes
    /\ IsWhole(params.initialInventory) /\ params.initialInventory > 0
    /\ injections[1] > 0
    /\ withdrawals[3] > 0

\* ---------------------------------------------------------------- C13
ReportedEndings == { result.schedule[k].endingInventory : k \in Periods }

\* peakInventory is the greatest of initialInventory and the reported endings.
PeakIsMaximum ==
    /\ result.peakInventory \in ReportedEndings \cup {params.initialInventory}
    /\ result.peakInventory >= params.initialInventory
    /\ \A e \in ReportedEndings : result.peakInventory >= e

\* C13 as stated: peakInventory equals the maximum of initialInventory and every
\* period's endingInventory.
C13_AsStated == pc = "done" => PeakIsMaximum

\* C13 amended: peakInventory is >= every period's endingInventory; for n >= 1 it
\* equals one of them and for n = 0 it is initialInventory; it is the maximum of
\* initialInventory and the endings, hence >= initialInventory, when
\* initialInventory is a whole number or n < 2, and for n >= 2 it is >=
\* initialInventory less half a unit.
C13_PeakInventory ==
    pc = "done" =>
        /\ \A e \in ReportedEndings : result.peakInventory >= e
        /\ N >= 1 => result.peakInventory \in ReportedEndings
        /\ N = 0 => result.peakInventory = params.initialInventory
        /\ (N < 2 \/ IsWhole(params.initialInventory)) => PeakIsMaximum
        /\ 2 * (params.initialInventory - result.peakInventory) <= VolDen

\* A finished run from a non-zero initialInventory in which the inventory rose in
\* the first period, rose again in the second and came back down in the last.
C13_Witness ==
    /\ DoneLoop
    /\ N = 3
    /\ params.initialInventory > 0
    /\ Running[1] > params.initialInventory
    /\ Running[2] > Running[1]
    /\ result.peakInventory = result.schedule[2].endingInventory
    /\ result.peakInventory > result.schedule[3].endingInventory
\* ---------------------------------------------------------------- C14
Mapped == 1..Len(prepared)

\* C14: the list built by prepareForwardPrices never runs ahead of its input and
\* has the input's length when it is returned; entry k has the contract, month
\* and price of input entry k, and its expiryDate, or '' when that is missing.
C14_SameEntries ==
    /\ Len(prepared) <= Len(forwardCurve)
    /\ prepareDone => Len(prepared) = Len(forwardCurve)
    /\ \A k \in Mapped :
        /\ prepared[k].contract = forwardCurve[k].contract
        /\ prepared[k].month = forwardCurve[k].month
        /\ prepared[k].price = forwardCurve[k].price
        /\ prepared[k].expiryDate =
              IF forwardCurve[k].expiryDate = Undefined THEN ""
              ELSE forwardCurve[k].expiryDate

\* A list of two different entries has been returned, the first without an
\* expiryDate and the second with one.
C14_Witness ==
    /\ prepareDone
    /\ Len(forwardCurve) = 2
    /\ forwardCurve[1].expiryDate = Undefined
    /\ forwardCurve[2].expiryDate = "2026-02-25"
    /\ forwardCurve[1].month # forwardCurve[2].month

\* ---------------------------------------------------------------- C15
MonthAbbreviations ==
    { << "J", "a", "n" >>,
      << "F", "e", "b" >>,
      << "M", "a", "r" >>,
      << "A", "p", "r" >>,
      << "M", "a", "y" >>,
      << "J", "u", "n" >>,
      << "J", "u", "l" >>,
      << "A", "u", "g" >>,
      << "S", "e", "p" >>,
      << "O", "c", "t" >>,
      << "N", "o", "v" >>,
      << "D", "e", "c" >> }

\* A label '<Mon> <YYYY>': a month abbreviation, one space, four digits.
IsMonYear(l) ==
    /\ Len(l) = 8
    /\ SubSeq(l, 1, 3) \in MonthAbbreviations
    /\ l[4] = " "
    /\ \A q \in 5..8 : IsDigit(l[q])

YearOf(l) ==
    1000 * DigitValue(l[5]) + 100 * DigitValue(l[6]) + 10 * DigitValue(l[7])
        + DigitValue(l[8])

\* The calendar: thirty days has September, April, June and November.
CalendarDays(l) ==
    LET mon == SubSeq(l, 1, 3)
        y == YearOf(l)
    IN  IF mon \in { << "S", "e", "p" >>, << "A", "p", "r" >>, << "J", "u", "n" >>, << "N", "o", "v" >> }
        THEN 30
        ELSE IF mon = << "F", "e", "b" >>
             THEN (IF y % 400 = 0 \/ (y % 4 = 0 /\ y % 100 # 0) THEN 29 ELSE 28)
             ELSE 31

MonthWords ==
    { << "j", "a", "n" >>,
      << "f", "e", "b" >>,
      << "m", "a", "r" >>,
      << "a", "p", "r" >>,
      << "m", "a", "y" >>,
      << "j", "u", "n" >>,
      << "j", "u", "l" >>,
      << "a", "u", "g" >>,
      << "s", "e", "p" >>,
      << "o", "c", "t" >>,
      << "n", "o", "v" >>,
      << "d", "e", "c" >>,
      << "j", "a", "n", "u", "a", "r", "y" >>,
      << "f", "e", "b", "r", "u", "a", "r", "y" >>,
      << "m", "a", "r", "c", "h" >>,
      << "a", "p", "r", "i", "l" >>,
      << "j", "u", "n", "e" >>,
      << "j", "u", "l", "y" >>,
      << "a", "u", "g", "u", "s", "t" >>,
      << "s", "e", "p", "t", "e", "m", "b", "e", "r" >>,
      << "o", "c", "t", "o", "b", "e", "r" >>,
      << "n", "o", "v", "e", "m", "b", "e", "r" >>,
      << "d", "e", "c", "e", "m", "b", "e", "r" >> }

LowerWord(w) == [i \in DOMAIN w |-> ToLower(w[i])]

\* The label does not give a month and a year: the pattern does not match it, or
\* the word it finds is not the name of a month.
NoMonthAndYear(l) ==
    \/ \A p \in 1..Len(l) : ~MatchesAt(l, p)
    \/ LowerWord(MonthMatch(l).monthName) \notin MonthWords

\* C16 as stated: an entry whose label does not give a month and a year gets
\* daysInMonth = 30.
C16_AsStated ==
    \A k \in Mapped :
        NoMonthAndYear(forwardCurve[k].month) =>
            prepared[k].daysInMonth = DefaultDaysInMonth
\* ---------------------------------------------------------------- C17
\* The value the request gives to field k, or the default when it gives none.
Requested(k) ==
    IF "facilityParams" \in DOMAIN request /\ k \in DOMAIN request.facilityParams
    THEN request.facilityParams[k]
    ELSE DEFAULT_FACILITY_PARAMS[k]

\* C17: the FacilityParams handed to optimizeStorage have 0 <= initialInventory <=
\* capacity; initialInventory is capacity when the request asked for more, and
\* else as requested; every other field is as the request gave it, within the
\* limits of the schema, or the default.
C17_ClampedParams ==
    stage = "handed" =>
        /\ DOMAIN handed = ParamKeys
        /\ 0 <= handed.initialInventory
        /\ handed.initialInventory <= handed.capacity
        /\ handed.initialInventory =
              IF Requested("initialInventory") > Requested("capacity")
              THEN Requested("capacity")
              ELSE Requested("initialInventory")
        /\ \A k \in ParamKeys \ {"initialInventory"} :
              handed[k] = Requested(k) /\ FieldOK(k, handed[k])

\* A request for initialInventory above the capacity it asks for has been
\* accepted, and its params have been handed on with initialInventory = capacity.
C17_Witness ==
    /\ stage = "handed"
    /\ "facilityParams" \in DOMAIN request
    /\ {"capacity", "initialInventory"} \subseteq DOMAIN request.facilityParams
    /\ request.facilityParams.initialInventory > request.facilityParams.capacity
    /\ handed.initialInventory = request.facilityParams.capacity
    /\ handed.capacity = request.facilityParams.capacity
\* ---------------------------------------------------------------- C18
Keys == { KeyOf(proc) : proc \in Procedures }

\* This step is a futures call for key k that goes to the fetcher.
FuturesMissStep(k) ==
    \E p \in pending' \ pending : p.proc \in FuturesProcedures /\ KeyOf(p.proc) = k

\* This step is a futures call for key k that is answered with cached = true.
FuturesHitStep(k) ==
    /\ reply' # reply
    /\ \E r \in reply' :
        /\ r.proc \in FuturesProcedures /\ KeyOf(r.proc) = k
        /\ r.status = "ok"
        /\ r.body.cached

FuturesCallStep(k) == FuturesMissStep(k) \/ FuturesHitStep(k)

\* A futures call for k has stored its data no more than CACHE_TTL ago, with no
\* clear since: f is the first such call.
WithinTTL(f, k) == f \in firstSuccess /\ f.key = k /\ now <= f.at + CACHE_TTL

\* C18 as stated: a futures call made within the TTL of the first call that
\* succeeded for its key, with no clear in between, is answered with cached =
\* true, a numeric cacheAge and the first call's data, without a fetch; the first
\* futures call for a key after a clear is answered with cached = false.
C18_AsStated ==
    [][\A k \in Keys :
        /\ \A f \in firstSuccess :
              (WithinTTL(f, k) /\ FuturesCallStep(k)) =>
                  /\ FuturesHitStep(k)
                  /\ pending' = pending
                  /\ \A r \in reply' :
                        r.body.cacheAge \in Nat /\ r.body.data = f.data
        /\ (k \notin served /\ FuturesCallStep(k)) => FuturesMissStep(k)]_vars

\* C18 amended: such a call is answered with cached = true, a numeric cacheAge
\* and the data stored last under its key, without a fetch; that is the first
\* call's data when no other fetch for the key was under way as the first call
\* stored its own.  A futures call is answered with cached = false, after a fetch,
\* exactly when the cache holds no entry for its key that has not expired, as for
\* the first call after a clear unless another call has stored data since.
C18_CachedWithinTTL ==
    [][\A k \in Keys :
        /\ \A f \in firstSuccess :
              (WithinTTL(f, k) /\ FuturesCallStep(k)) =>
                  /\ FuturesHitStep(k)
                  /\ pending' = pending /\ cache' = cache
                  /\ \A r \in reply' :
                        /\ r.body.cacheAge \in Nat
                        /\ \E e \in cache :
                              /\ e.key = k
                              /\ r.body.data = e.data
                              /\ r.body.cacheAge = 60 * (now - e.timestamp)
                        /\ f.alone => r.body.data = f.data
        /\ FuturesCallStep(k) =>
              (FuturesMissStep(k) <=>
                  \A e \in cache : e.key = k => now > e.timestamp + CACHE_TTL)]_vars

\* A futures call made exactly CACHE_TTL after the first call stored its data has
\* been answered from the cache with that data.
C18_Witness ==
    \E r \in reply, f \in firstSuccess :
        /\ r.proc \in FuturesProcedures
        /\ r.status = "ok"
        /\ r.body.cached
        /\ r.body.cacheAge = 60 * CACHE_TTL
        /\ f.key = KeyOf(r.proc)
        /\ f.alone
        /\ f.data = r.body.data
        /\ now = f.at + CACHE_TTL
\* ---------------------------------------------------------------- C19
\* The discounted spread of injecting in period i and withdrawing in period j.
PairSpread(i, j) ==
    (forwardPrices[j].price - params.withdrawalCost)
        * getDiscountFactor(j - 1, params.discountRate)
    - (forwardPrices[i].price + params.injectionCost)
        * getDiscountFactor(i - 1, params.discountRate)

PositivePairs == { ij \in Periods \X Periods : ij[1] < ij[2] /\ PairSpread(ij[1], ij[2]) > 0 }

\* Pair a comes before pair b in the enumeration: ascending i, then ascending j.
EnumeratedBefore(a, b) == a.i < b.i \/ (a.i = b.i /\ a.j < b.j)

\* positiveSpread lists every positive pair once, each with its spread, highest
\* spread first and equal spreads in enumeration order.
SortedPositivePairs ==
    /\ Len(positiveSpread) = Cardinality(PositivePairs)
    /\ { << positiveSpread[a].i, positiveSpread[a].j >> : a \in DOMAIN positiveSpread }
          = PositivePairs
    /\ \A a \in DOMAIN positiveSpread :
          positiveSpread[a].spread = PairSpread(positiveSpread[a].i, positiveSpread[a].j)
    /\ \A a, b \in DOMAIN positiveSpread :
          a < b =>
            \/ positiveSpread[a].spread > positiveSpread[b].spread
            \/ /\ positiveSpread[a].spread = positiveSpread[b].spread
               /\ EnumeratedBefore(positiveSpread[a], positiveSpread[b])

\* C19: in the loop and after it positiveSpread is that list and idx counts the
\* entries dealt with; a step of the loop deals with entry idx alone and moves
\* on to the next, the list stays as it is, and the loop is left only after the
\* last entry.
C19_ProcessingOrder ==
    /\ [](InLoopOrDone => (SortedPositivePairs /\ idx \in 1..(Len(positiveSpread) + 1)))
    /\ [](DoneLoop => idx = Len(positiveSpread) + 1)
    /\ [][pc = "loop" =>
            /\ positiveSpread' = positiveSpread
            /\ pc' = "loop" =>
                /\ idx' = idx + 1
                /\ \A k \in Periods :
                    /\ k # positiveSpread[idx].i => injections'[k] = injections[k]
                    /\ k # positiveSpread[idx].j => withdrawals'[k] = withdrawals[k]
            /\ pc' = "done" => idx' = idx /\ idx > Len(positiveSpread)]_vars

\* A finished run whose list had two pairs of equal spread behind a pair of
\* higher spread, with volume committed to the second of the two equal pairs.
C19_Witness ==
    /\ DoneLoop
    /\ Len(positiveSpread) >= 3
    /\ positiveSpread[1].spread > positiveSpread[2].spread
    /\ positiveSpread[2].spread = positiveSpread[3].spread
    /\ \/ injections[positiveSpread[3].i] > 0 /\ positiveSpread[3].i # positiveSpread[1].i
                /\ positiveSpread[3].i # positiveSpread[2].i
       \/ withdrawals[positiveSpread[3].j] > 0 /\ positiveSpread[3].j # positiveSpread[1].j
                /\ positiveSpread[3].j # positiveSpread[2].j
\* ---------------------------------------------------------------- C20
\* The inventory after period k under the volumes committed so far.
InventorySoFar(k) ==
    params.initialInventory + SumTo(injections, k) - SumTo(withdrawals, k)

LeastOf(S) == CHOOSE x \in S : \A y \in S : x <= y

\* max(0, min(a, b, c, d)) for the pair (i, j).
StatedVolume(i, j) ==
    LET a == remainingInjectionCapacity[i]
        b == remainingWithdrawalCapacity[j]
        c == LeastOf({params.capacity}
                     \cup { params.capacity - InventorySoFar(k) : k \in i..(j - 1) })
        d == InventorySoFar(j) + a
        least == LeastOf({a, b, c, d})
    IN  IF least > 0 THEN least ELSE 0

\* C20: a step of the loop on the pair (i, j) adds max(0, min(a, b, c, d)) to
\* injections[i] and to withdrawals[j], takes it from the remaining injection
\* capacity at i and the remaining withdrawal capacity at j, and leaves every
\* other entry of the four arrays alone.
C20_CommittedVolume ==
    [][(pc = "loop" /\ pc' = "loop") =>
        LET i == positiveSpread[idx].i
            j == positiveSpread[idx].j
            volume == StatedVolume(i, j)
        IN  /\ injections' = [injections EXCEPT ![i] = @ + volume]
            /\ withdrawals' = [withdrawals EXCEPT ![j] = @ + volume]
            /\ remainingInjectionCapacity' =
                 [remainingInjectionCapacity EXCEPT ![i] = @ - volume]
            /\ remainingWithdrawalCapacity' =
                 [remainingWithdrawalCapacity EXCEPT ![j] = @ - volume]]_vars

\* The entry just processed is the only one so far that injects in its period,
\* volume was committed to it with both rate limits left unexhausted (so the
\* capacity headroom was the binding term), on top of an earlier commit.
C20_Witness ==
    /\ pc = "loop"
    /\ idx > 2
    /\ LET e == positiveSpread[idx - 1]
       IN  /\ \A a \in 1..(idx - 2) : positiveSpread[a].i # e.i
           /\ injections[e.i] > 0
           /\ remainingInjectionCapacity[e.i] > 0
           /\ remainingWithdrawalCapacity[e.j] > 0
           /\ \E k \in Periods : k # e.i /\ injections[k] > 0
\* ---------------------------------------------------------------- C21
\* The table built from the arguments of the call.
SpreadTable == buildSpreadMatrix(forwardPrices, params)

RECURSIVE StatedDF(_)
\* (1 + discountRate)^(-k/12) on the scale of the spreads: 1 at k = 0, and one
\* factor (1 + discountRate)^(-1/12) = DFNum / DFDen more for every month.
StatedDF(k) ==
    IF k = 0 THEN Pow(DFDen(params.discountRate), MaxMonth)
    ELSE (StatedDF(k - 1) * DFNum(params.discountRate)) \div DFDen(params.discountRate)

StatedSpread(i, j) ==
    (forwardPrices[j].price - params.withdrawalCost) * StatedDF(j - 1)
        - (forwardPrices[i].price + params.injectionCost) * StatedDF(i - 1)

\* C21: when the table has just been built, it is n x n, holds the stated
\* spread above the diagonal and 0 on and below it, and the step that builds it
\* leaves the prices and the parameters as they were.
C21_SpreadMatrix ==
    /\ []((pc = "loop" /\ idx = 1) =>
            /\ DOMAIN SpreadTable = 1..N
            /\ \A i \in 1..N :
                  /\ DOMAIN SpreadTable[i] = 1..N
                  /\ \A j \in 1..N :
                        SpreadTable[i][j] = IF i < j THEN StatedSpread(i, j) ELSE 0)
    /\ [][pc = "start" => (forwardPrices' = forwardPrices /\ params' = params)]_vars

\* The table has been built for three months with a unit cost and discounting:
\* one pair pays and is on the list with its spread, another pair loses.
C21_Witness ==
    /\ pc = "loop"
    /\ idx = 1
    /\ N = 3
    /\ params.discountRate = "pos"
    /\ params.injectionCost + params.withdrawalCost > 0
    /\ SpreadTable[1][3] > 0
    /\ SpreadTable[1][2] < 0
    /\ \E e \in 1..Len(positiveSpread) :
          /\ positiveSpread[e].i = 1
          /\ positiveSpread[e].j = 3
          /\ positiveSpread[e].spread = SpreadTable[1][3]
\* ---------------------------------------------------------------- C22
Invocations == { p \in DOMAIN trace : trace[p].kind = "attempt" }

Successes == { p \in Invocations : trace[p].ok }

RetrySettled == retryPc \in {"returned", "rejected"}

\* C22: operation is invoked at most retries times; a successful invocation is
\* the last thing withRetry does and its value is what is returned; a delay
\* comes only after a failed invocation and is followed by the next one, two
\* invocations never follow each other without a delay, and nothing is waited
\* for once the call has settled; the call rejects only after retries failed
\* invocations, with the error of the last of them.
C22_Retry ==
    /\ retryPc # "idle"
    /\ Cardinality(Invocations) <= retries
    /\ \A p \in Successes : p = Len(trace) /\ retryPc = "returned"
    /\ retryPc = "returned" =>
          /\ Successes = {Len(trace)}
          /\ outcome = trace[Len(trace)].value
    /\ \A p \in DOMAIN trace :
          /\ trace[p].kind = "wait" =>
                /\ p > 1
                /\ trace[p - 1].kind = "attempt"
                /\ ~trace[p - 1].ok
                /\ p < Len(trace) => trace[p + 1].kind = "attempt"
                /\ p = Len(trace) =>
                      (~RetrySettled /\ Cardinality(Invocations) < retries)
          /\ (trace[p].kind = "attempt" /\ p < Len(trace)) =>
                trace[p + 1].kind = "wait"
    /\ retryPc = "rejected" =>
          /\ Successes = {}
          /\ Cardinality(Invocations) = retries
          /\ retries >= 1 => outcome = trace[Len(trace)].value
          /\ retries = 0 => outcome = Undefined

\* Three attempts were allowed: the first two failed, each followed by its
\* delay, and the third one failed with another error, which is the rejection.
C22_Witness ==
    /\ retryPc = "rejected"
    /\ retries = 3
    /\ Len(trace) = 5
    /\ trace[2].ms = delayMs
    /\ trace[4].ms = 2 * delayMs
    /\ trace[3].value # trace[5].value
    /\ outcome = trace[5].value
\* ---------------------------------------------------------------- C23
\* The last set on key k is out of date at time t: t is later than its time
\* plus its TTL.
OutOfDate(k, t) == k \in DOMAIN lastSet /\ t > lastSet[k].at + lastSet[k].ttl

Called(op) == answer # << >> /\ answer.op = op

\* C23: a get or has made after the end of the TTL of the last set on its key
\* answers null / false and leaves no entry under the key; data that get
\* returns is the data of the last set on the key; getStats lists no key whose
\* last set is out of date; and an entry in the Map is the one of the last set
\* on its key, expiring one TTL after the time of that set.
C23_NoExpiredData ==
    /\ Called("get") =>
          /\ OutOfDate(answer.key, answer.at) =>
                (answer.data = Null /\ answer.key \notin DOMAIN store)
          /\ answer.data # Null =>
                /\ answer.key \in DOMAIN lastSet
                /\ answer.data = lastSet[answer.key].data
    /\ Called("has") =>
          /\ OutOfDate(answer.key, answer.at) =>
                (~answer.found /\ answer.key \notin DOMAIN store)
          /\ answer.found => answer.key \in DOMAIN lastSet
    /\ Called("getStats") =>
          \A k \in answer.keys : k \in DOMAIN lastSet /\ ~OutOfDate(k, answer.at)
    /\ \A k \in DOMAIN store :
          /\ k \in DOMAIN lastSet
          /\ store[k].data = lastSet[k].data
          /\ store[k].timestamp = lastSet[k].at
          /\ store[k].expiresAt = lastSet[k].at + lastSet[k].ttl

\* A get made one minute after the default TTL of the last set on its key ran
\* out has answered null, while the entry stored later under the other key is
\* still there.
C23_Witness ==
    /\ Called("get")
    /\ answer.data = Null
    /\ answer.at = DefaultTTL + 1
    /\ answer.key = KeyOf("forwardCurve")
    /\ answer.key \in DOMAIN lastSet
    /\ lastSet[answer.key].ttl = DefaultTTL
    /\ lastSet[answer.key].data = "curve B"
    /\ KeyOf("historical") \in DOMAIN store
    /\ store[KeyOf("historical")].timestamp >= 1
    /\ ~Expired(store[KeyOf("historical")], clock)

\* ---------------------------------------------------------------- C30
\* C30 as stated: at every time and for every key, has is true exactly when get
\* returns the stored data and exactly when getTTL returns a remaining time.
C30_AsStated ==
    \A k \in CacheKeySet :
        /\ HasResult(store, k, clock) <=> (GetResult(store, k, clock) # Null)
        /\ HasResult(store, k, clock) <=> (GetTTLResult(store, k, clock) # {})

\* has and get do agree with each other.
C30_HasAgreesWithGet ==
    \A k \in CacheKeySet :
        HasResult(store, k, clock) <=> (GetResult(store, k, clock) # Null)

\* An entry stored with ttlMs = 0 is asked for its TTL in the minute it was
\* stored in: has would say true, getTTL has answered null.
C30_Witness ==
    /\ Called("getTTL")
    /\ answer.remaining = {}
    /\ answer.at = clock
    /\ answer.key \in DOMAIN store
    /\ store[answer.key].expiresAt = clock
    /\ store[answer.key].timestamp = clock
    /\ HasResult(store, answer.key, clock)
\* ---------------------------------------------------------------- C24
\* C24: with initialInventory >= 0, in the loop and after it no period's
\* inventory is below initialInventory, the last period ends on
\* initialInventory, nothing is withdrawn in the first period or injected in the
\* last, and as much has been injected as withdrawn; the two totals of the
\* result are equal.
C24_NeverDrawnDown ==
    params.initialInventory >= 0 =>
        /\ InLoopOrDone =>
              /\ \A k \in Periods : InventorySoFar(k) >= params.initialInventory
              /\ InventorySoFar(N) = params.initialInventory
              /\ withdrawals[1] = 0
              /\ injections[N] = 0
              /\ SumTo(injections, N) = SumTo(withdrawals, N)
        /\ pc = "done" => result.totalInjection = result.totalWithdrawal

\* A finished run that started from a fractional inventory, injected in two
\* periods and withdrew it all in the last one.
C24_Witness ==
    /\ DoneLoop
    /\ N = 3
    /\ params.initialInventory % VolDen # 0
    /\ injections[1] > 0
    /\ injections[2] > 0
    /\ withdrawals[3] = injections[1] + injections[2]
    /\ InventorySoFar(2) > InventorySoFar(1)
    /\ result.totalInjection > 0
\* ---------------------------------------------------------------- C25
\* C25: after a run on an input with 0 <= initialInventory <= capacity, every
\* pair (i, j), i < j, of positive spread is closed: no injection capacity is
\* left at i, or no withdrawal capacity is left at j, or the facility is full
\* in some period from i to j - 1.
C25_NoVolumeLeft ==
    (DoneLoop /\ 0 <= params.initialInventory
              /\ params.initialInventory <= params.capacity) =>
        \A i, j \in Periods :
            (i < j /\ PairSpread(i, j) > 0) =>
                \/ remainingInjectionCapacity[i] = 0
                \/ remainingWithdrawalCapacity[j] = 0
                \/ \E k \in i..(j - 1) : InventorySoFar(k) = params.capacity

\* A finished run with one pair closed by each of the three: the injection
\* limit, the withdrawal limit, and a full facility with both limits open.
C25_Witness ==
    /\ DoneLoop
    /\ \E i, j \in Periods :
          /\ i < j /\ PairSpread(i, j) > 0
          /\ remainingInjectionCapacity[i] > 0
          /\ remainingWithdrawalCapacity[j] > 0
          /\ \E k \in i..(j - 1) : InventorySoFar(k) = params.capacity
    /\ \E i, j \in Periods :
          /\ i < j /\ PairSpread(i, j) > 0
          /\ remainingInjectionCapacity[i] = 0
          /\ \A k \in i..(j - 1) : InventorySoFar(k) < params.capacity

\* ---------------------------------------------------------------- C26
\* C26: with initialInventory >= 0, at every pair (i, j) the loop processes,
\* what is available for withdrawal (the inventory of period j plus the
\* remaining injection capacity at i) is at least the remaining injection
\* capacity at i, and the volume added to injections[i] and withdrawals[j] is
\* max(0, min(a, b, c)) of the two remaining capacities and the least headroom
\* over the periods i to j - 1.
C26_WithdrawalBoundNeverBinds ==
    [][(pc = "loop" /\ pc' = "loop" /\ params.initialInventory >= 0) =>
        LET i == positiveSpread[idx].i
            j == positiveSpread[idx].j
            a == remainingInjectionCapacity[i]
            b == remainingWithdrawalCapacity[j]
            c == LeastOf({params.capacity}
                         \cup { params.capacity - InventorySoFar(k) : k \in i..(j - 1) })
            d == InventorySoFar(j) + a
            least == LeastOf({a, b, c})
            volume == IF least > 0 THEN least ELSE 0
        IN  /\ d >= a
            /\ injections'[i] = injections[i] + volume
            /\ withdrawals'[j] = withdrawals[j] + volume]_vars

\* The pair just processed found the facility empty in its withdrawal month, so
\* that what was available for withdrawal was exactly the remaining injection
\* capacity, and all of that capacity was committed.
C26_Witness ==
    /\ pc = "loop"
    /\ idx > 1
    /\ params.initialInventory = 0
    /\ LET e == positiveSpread[idx - 1]
       IN  /\ \A p \in 1..(idx - 2) : positiveSpread[p].i # e.i
           /\ injections[e.i] > 0
           /\ remainingInjectionCapacity[e.i] = 0
           /\ withdrawals[e.j] = injections[e.i]
           /\ InventorySoFar(e.j) = 0

\* ---------------------------------------------------------------- C27
OverCapacity == DoneLoop /\ params.initialInventory > params.capacity

NothingCommitted ==
    /\ \A k \in Periods :
          /\ injections[k] = 0 /\ withdrawals[k] = 0
          /\ result.schedule[k].injection = 0
          /\ result.schedule[k].withdrawal = 0
    /\ result.totalValue = 0

\* C27 as stated: a direct call with initialInventory > capacity and n >= 2
\* commits nothing, and every endingInventory and peakInventory equal
\* initialInventory.
C27_AsStated ==
    OverCapacity =>
        /\ NothingCommitted
        /\ \A k \in Periods : result.schedule[k].endingInventory = params.initialInventory
        /\ result.peakInventory = params.initialInventory

\* C27 amended: such a call steps through its list, every entry within the
\* arrays, without committing anything, and returns having committed nothing;
\* every endingInventory and peakInventory are initialInventory rounded to the
\* nearest whole unit, which is initialInventory when that is a whole number.
C27_CommitsNothing ==
    /\ (pc = "loop" /\ params.initialInventory > params.capacity) =>
          /\ idx \in 1..(Len(positiveSpread) + 1)
          /\ \A e \in DOMAIN positiveSpread :
                {positiveSpread[e].i, positiveSpread[e].j} \subseteq Periods
          /\ \A k \in Periods : injections[k] = 0 /\ withdrawals[k] = 0
          /\ totalValue = 0
    /\ OverCapacity =>
          /\ NothingCommitted
          /\ \A k \in Periods :
                /\ result.schedule[k].endingInventory = RoundVol(params.initialInventory)
                /\ IsWhole(params.initialInventory) =>
                      result.schedule[k].endingInventory = params.initialInventory
          /\ result.peakInventory = RoundVol(params.initialInventory)
          /\ IsWhole(params.initialInventory) =>
                result.peakInventory = params.initialInventory

\* A direct call returned with a fractional initialInventory above the
\* capacity: pairs of positive spread were on the list, none got any volume.
C27_Witness ==
    /\ OverCapacity
    /\ N = 3
    /\ Len(positiveSpread) >= 2
    /\ ~IsWhole(params.initialInventory)
    /\ result.peakInventory # params.initialInventory
    /\ result.totalInjection = 0
\* ---------------------------------------------------------------- C28
\* C28: whatever storage.optimize and storage.defaultParams requests have been
\* handled, DEFAULT_FACILITY_PARAMS is as it was written in the source, and the
\* clamp has written to per-request copies only.
C28_DefaultsUntouched ==
    /\ defaults = DEFAULT_FACILITY_PARAMS
    /\ "shared" \notin wrote

\* The third request, one without facilityParams, has been handed the shared
\* object after the clamp had written to the copy of an earlier request.
C28_Witness ==
    /\ requestNo = 3
    /\ stage = "handed"
    /\ SharesDefaults(parsed)
    /\ wrote = {"copy"}
    /\ handed = DEFAULT_FACILITY_PARAMS
\* ---------------------------------------------------------------- C29
\* The file call c wrote is in place: its path exists and holds c's content.
OwnFileInPlace(c) ==
    /\ runs[c].csvPath \in DOMAIN tmpFiles
    /\ tmpFiles[runs[c].csvPath] = c

\* A Python process that has read, has read the CSV of its own call.
ReadsOwnFile == \A c \in RunIds : ~runs[c].missing /\ runs[c].read \in {0, c}

\* The file of a call that has not settled is neither overwritten nor deleted.
FileKeptWhileInUse == \A c \in RunIds : runs[c].pc = "running" => OwnFileInPlace(c)

\* The file a settled call wrote is gone.
FileGoneAfterwards ==
    \A c \in RunIds :
        (runs[c].pc = "settled" /\ runs[c].csvPath # -1) => ~OwnFileInPlace(c)

\* C29 as stated: under every interleaving each Python process reads the CSV of
\* its own call, no call overwrites or deletes the file of a call that has not
\* settled, and the file a settled call wrote no longer exists.
C29_AsStated == ReadsOwnFile /\ FileKeptWhileInUse /\ FileGoneAfterwards

\* Two calls wrote within the same millisecond: the first has read the second
\* one's curve and resolved, and its clean-up has taken the file away from the
\* second call, whose process finds nothing to read.
C29_Witness ==
    /\ runs[1].csvPath = runs[2].csvPath
    /\ runs[1].pc = "settled"
    /\ runs[1].outcome = "resolved"
    /\ runs[1].read = 2
    /\ runs[2].pc = "running"
    /\ runs[2].missing
====
